---- MODULE Spec2Model ----
(***************************************************************************)
(* A model of the SignalBridge collection / evaluation pipeline:           *)
(*   - the signal_sources and signals tables as SupabaseClient and         *)
(*     SupabaseManager read and write them (supabase_client.py,            *)
(*     api/database.py);                                                   *)
(*   - AIEvaluator: one LLM evaluation, one batch, one evaluate call per   *)
(*     PIR, and the signal writer (core/ai_evaluator.py);                  *)
(*   - the campaign: the collector's per-PIR news tasks followed by the    *)
(*     filing evaluation of execute_ai_strategic_backfill (main.py), and   *)
(*     the feed monitor's own evaluation loop (rss_monitor.py).            *)
(*                                                                         *)
(* Numbers that are floats in the code (scores, thresholds) are held in    *)
(* hundredths: 30 is 0.30.                                                  *)
(***************************************************************************)
EXTENDS Integers, Sequences, FiniteSets, TLC

(***************************************************************************)
(* Bounds of the model.                                                    *)
(***************************************************************************)
\* most source-table calls made in one run of the source-table model
MaxCalls == 3
\* longest raw article list the search backend returns for one PIR
MaxArticles == 2
\* longest filing list handed to the evaluator
MaxFilings == 2
\* largest max_signals_per_pir a plan carries
MaxCap == 2
\* largest ai_evaluation_batch_size a plan carries
MaxBatch == 2
\* the longest article list of one PIR whose evaluations are followed call by call
MaxFlight == 4
FlightIds == 1..MaxFlight
\* most domains handed to one endpoint sweep (one more than a slice holds)
MaxDomains == 11
\* most subscribe_feed and unsubscribe_feed calls made to one monitor
MaxSubCalls == 4

(***************************************************************************)
(* Python values.                                                          *)
(***************************************************************************)
\* Python's None where a string is expected
None == "None"
\* Python's None where a row id is expected (the database's ids start at 1)
NoId == 0
\* a last_checked column left null
NullTime == 0
\* a key that a dict does not carry (dict.get then yields its default)
Missing == "missing"
\* a JSON value that is no number: null, a string, a list
Bad == "bad"

(***************************************************************************)
(* The signal_sources table: a set of rows, each with the id the database  *)
(* gave it.  last_checked is the clock value of the request that wrote it. *)
(***************************************************************************)
Names == {"n1", "n2"}
Urls == {"u1", "u2"}

SourceRow(id, name, url, type, now) ==
    [id |-> id, source_name |-> name, source_url |-> url,
     source_type |-> type, last_checked |-> now]

\* .select('*').eq('source_name', name).execute().data
SelectByName(tbl, name) == {r \in tbl : r.source_name = name}

\* .select('*').eq('source_url', url).execute().data
SelectByUrl(tbl, url) == {r \in tbl : r.source_url = url}

\* the rows that carry both the name and the URL
RowsFor(tbl, name, url) ==
    {r \in tbl : r.source_name = name /\ r.source_url = url}

\* data[0] of a select without ORDER BY, when the rows come back in
\* insertion order (ids are handed out in increasing order)
FirstRow(rows) == CHOOSE r \in rows : \A q \in rows : r.id <= q.id

\* .update({'last_checked': now}).eq('id', id).execute()
TouchLastChecked(tbl, id, now) ==
    {IF r.id = id THEN [r EXCEPT !.last_checked = now] ELSE r : r \in tbl}

\* .insert(insert_data).execute(): the database appends the row, unless a
\* unique key on (source_name, source_url) exists and refuses it
InsertAccepted(tbl, name, url, unique) ==
    ~unique \/ RowsFor(tbl, name, url) = {}

\* .update(data).eq('id', id).execute() of SupabaseManager: the row takes
\* the name, type and URL of the call
UpdateSource(tbl, id, name, url, type) ==
    {IF r.id = id
     THEN [r EXCEPT !.source_name = name, !.source_url = url, !.source_type = type]
     ELSE r : r \in tbl}

\* whether an update that gives row id the pair (name, url) is accepted
UpdateAccepted(tbl, id, name, url, unique) ==
    ~unique \/ \A r \in RowsFor(tbl, name, url) : r.id = id

\* SupabaseClient.create_or_get_signal_source, run without interruption
\* (a coroutine without an await inside): the table afterwards and the id
\* returned.  ok = FALSE: a request raised, the except branch returns None.
CreateOrGetSignalSource(tbl, id, name, url, type, now, ok) ==
    IF ~ok THEN [tbl |-> tbl, ret |-> NoId]
    ELSE IF SelectByName(tbl, name) # {}
         THEN LET found == FirstRow(SelectByName(tbl, name))
              IN [tbl |-> TouchLastChecked(tbl, found.id, now), ret |-> found.id]
         ELSE [tbl |-> tbl \cup {SourceRow(id, name, url, type, now)}, ret |-> id]

(***************************************************************************)
(* The evaluation LLM's answer, as _call_openai_evaluation hands it on.    *)
(* kind "error": the call raised or timed out; kind "empty": the content   *)
(* was no JSON and {} came back; kind "dict": a non-empty JSON object.     *)
(* A score is tagged: a number (in hundredths), a missing key, or a JSON   *)
(* value that is no number.  A reasoning text is held as its length.       *)
(***************************************************************************)
Num(v) == [t |-> "num", v |-> v]
NoScore == [t |-> Missing, v |-> 0]
BadScore == [t |-> Bad, v |-> 0]

Response(kind, score, rec, reasoning) ==
    [kind |-> kind, score |-> score, rec |-> rec, reasoning |-> reasoning]
ErrorResponse == Response("error", NoScore, Missing, 0)
EmptyResponse == Response("empty", NoScore, Missing, 0)

\* ai_result.get('relevance_score', 0.0)
GetScore(resp) == IF resp.score.t = Missing THEN Num(0) ELSE resp.score

\* ai_result.get('recommendation', 'uncertain')
GetRecommendation(resp) == IF resp.rec = Missing THEN "uncertain" ELSE resp.rec

\* the dict every early return and except branch of the evaluation yields
NoSignalResult ==
    [should_create_signal |-> FALSE, error |-> TRUE,
     relevance_score |-> NoScore, recommendation |-> Missing, reasoning |-> 0]

\* AIEvaluator._ai_evaluate_single_article: the dict it returns.  Python
\* evaluates `recommendation == 'include' or (score > threshold and ...)`
\* left to right, so the comparison runs only when the decision is not
\* 'include', and raises for a score that is no number; the debug line that
\* follows formats the score with :.3f and raises for such a score as well.
AiEvaluateSingleArticle(resp, threshold) ==
    IF resp.kind # "dict" THEN NoSignalResult
    ELSE LET relevance_score == GetScore(resp)
             recommendation == GetRecommendation(resp)
         IN IF recommendation # "include" /\ relevance_score.t # "num"
            THEN NoSignalResult
            ELSE LET should_create_signal ==
                         \/ recommendation = "include"
                         \/ (relevance_score.v > threshold /\ recommendation # "exclude")
                 IN IF relevance_score.t # "num"
                    THEN NoSignalResult
                    ELSE [should_create_signal |-> should_create_signal,
                          error |-> FALSE,
                          relevance_score |-> resp.score,
                          recommendation |-> resp.rec,
                          reasoning |-> resp.reasoning]

(***************************************************************************)
(* raw_signal_text.  json.dumps(ai_metadata) is a JSON object whose first  *)
(* key is ai_reasoning; the text is held as its length, the number of      *)
(* characters of the reasoning it carries, and the characters cut off.     *)
(***************************************************************************)
\* len(json.dumps(ai_metadata)) with an empty reasoning and the other keys
\* at their defaults
RawOverhead == 207
\* the same for the feed monitor's metadata, with an empty feed_url
RssRawOverhead == 229
\* length of a feed URL
FeedUrlLen == 24
\* index of the first character of the reasoning in that text
ReasoningOffset == 18
\* create_signal keeps raw_signal_text[:500]
RawLimit == 500

Min(a, b) == IF a < b THEN a ELSE b
Max(a, b) == IF a > b THEN a ELSE b

\* json.dumps(ai_metadata)
JsonDumpsMetadata(reasoning, overhead) ==
    [len |-> overhead + reasoning, reasoning |-> reasoning, cut |-> 0]

\* text[:500]
Truncate(text) ==
    [len |-> Min(text.len, RawLimit),
     reasoning |-> Min(text.reasoning, Max(0, RawLimit - ReasoningOffset)),
     cut |-> text.len - Min(text.len, RawLimit)]

\* json.loads succeeds on the stored text: a proper prefix of a JSON object
\* is no JSON
ParsesAsJson(text) == text.cut = 0

\* the stored text has the whole reasoning (a non-empty one) inside it
ContainsReasoning(text, reasoning) == reasoning > 0 /\ text.reasoning = reasoning

(***************************************************************************)
(* The signals table and the two writers of signal rows.                   *)
(***************************************************************************)
\* a text column: null, or a text of some length
NullText == [null |-> TRUE, len |-> 0]
Text(n) == [null |-> FALSE, len |-> n]

\* create_signal returns None
NoSignalId == <<None, 0>>

\* the id the database gives a new signal row: a fresh value
FreshSignalId(tbl, pir) ==
    <<pir, Cardinality({s \in tbl : s.indicator_id = pir}) + 1>>

\* a text column that holds one part of a document (its title or its body),
\* and the column left null
Field(part, doc) == [null |-> FALSE, part |-> part, doc |-> doc]
NullField == [null |-> TRUE, part |-> None, doc |-> None]

\* SupabaseClient.create_signal: the table afterwards and the id returned
\* (None when the insert raised or returned no data)
CreateSignal(tbl, data, ok) ==
    IF ~ok THEN [tbl |-> tbl, ret |-> NoSignalId]
    ELSE LET id == FreshSignalId(tbl, data.indicator_id)
             row == [id |-> id,
                     indicator_id |-> data.indicator_id,
                     source_id |-> data.source_id,
                     raw_signal_text |-> Truncate(data.raw_signal_text),
                     match_score |-> data.match_score,
                     status |-> data.status,
                     article_url |-> data.article_url,
                     article_title |-> data.article_title,
                     article_content |-> data.article_content,
                     ai_reasoning |-> data.ai_reasoning]
         IN [tbl |-> tbl \cup {row}, ret |-> id]

\* a save that goes on without looking at the source id
SourceNotChecked(source_id) == TRUE

\* `if not source_id: return False`
SourceResolved(source_id) == source_id # NoId

\* the database as a save sees it and leaves it, with the record of the
\* last save
Db(src, sig, nid, rec) == [sources |-> src, signals |-> sig, nextId |-> nid, lastSave |-> rec]

\* the record of one save: what was asked for, the source id that
\* create_or_get_signal_source returned, whether that id was a row of the
\* table before the signal insert, whether the signal row was written
SaveRecord(writer, pir, url, got, wrote, res, campaign) ==
    [made |-> TRUE, writer |-> writer, pir |-> pir, url |-> url, source_id |-> got.ret,
     source_found |-> \E r \in got.tbl : r.id = got.ret,
     wrote |-> wrote,
     decision |-> res.recommendation, score |-> res.relevance_score.v,
     reasoning |-> res.reasoning, campaign_threshold |-> campaign]

\* the outcomes of the database requests of one save
Outcomes == {"ok", "source_fails", "signal_fails"}

\* source row and signal row written by one save; shared by the two writers
SaveSignal(db, writer, name, url, type, status, raw, reasoningColumn, title, content, article_url, pir, res, out, now, campaign) ==
    LET got == CreateOrGetSignalSource(db.sources, db.nextId, name, url, type, now,
                                       out # "source_fails")
        nid == IF got.ret = db.nextId THEN db.nextId + 1 ELSE db.nextId
    IN IF ~SourceResolved(got.ret)
       THEN [db |-> Db(got.tbl, db.signals, nid,
                       SaveRecord(writer, pir, article_url, got, FALSE, res, campaign)),
             saved |-> FALSE]
       ELSE LET signal_data ==
                    [indicator_id |-> pir,
                     source_id |-> got.ret,
                     raw_signal_text |-> raw,
                     match_score |-> res.relevance_score.v,
                     status |-> status,
                     article_url |-> article_url,
                     article_title |-> title,
                     article_content |-> content,
                     ai_reasoning |-> reasoningColumn]
                made == CreateSignal(db.signals, signal_data, out # "signal_fails")
                wrote == made.ret # NoSignalId
            IN [db |-> Db(got.tbl, made.tbl, nid,
                          SaveRecord(writer, pir, article_url, got, wrote, res, campaign)),
                saved |-> wrote]

\* AIEvaluator._save_ai_signal
SaveAiSignal(db, article, pir, res, out, now, campaign) ==
    SaveSignal(db, "evaluator", article.source, article.url, "API", "ai_evaluated",
               JsonDumpsMetadata(res.reasoning, RawOverhead), Text(res.reasoning),
               article.title, article.description,
               article.url, pir, res, out, now, campaign)

\* RSSMonitor._save_rss_signal: the source is the feed; signal_data has no
\* article_title, article_content or ai_reasoning key, and create_signal
\* reads the three with signal_data.get(...), which gives None
SaveRssSignal(db, entry, pir, res, feed_url, out, now, campaign) ==
    SaveSignal(db, "rss", entry.feed_title, feed_url, "RSS", "rss_ai_evaluated",
               JsonDumpsMetadata(res.reasoning, RssRawOverhead + FeedUrlLen), NullText,
               NullField, NullField,
               entry.link, pir, res, out, now, campaign)

(***************************************************************************)
(* Articles, plans and the evaluation of one batch.                        *)
(***************************************************************************)
\* an article as _search_newsapi and convert_filing_to_article_format
\* build it, reduced to the keys the writers read
Article(url, source) == [url |-> url, source |-> source, title |-> Field("title", url), description |-> Field("description", url)]
NewsSource == "n1"
FilingSource == "n2"
NewsArticles == {Article(u, NewsSource) : u \in Urls}
FilingArticles == {Article(u, FilingSource) : u \in Urls}

\* the sequences over S of length at most n
SeqUpTo(S, n) == UNION {[1..k -> S] : k \in 0..n}

\* list[:n]
Take(list, n) == SubSeq(list, 1, Min(n, Len(list)))

\* AISmartCollector._deduplicate_articles: first occurrence of each URL,
\* articles with an empty URL dropped
RECURSIVE DeduplicateFrom(_, _, _)
DeduplicateFrom(articles, k, seen_urls) ==
    IF k > Len(articles) THEN <<>>
    ELSE LET url == articles[k].url
         IN IF url # "" /\ url \notin seen_urls
            THEN <<articles[k]>> \o DeduplicateFrom(articles, k + 1, seen_urls \cup {url})
            ELSE DeduplicateFrom(articles, k + 1, seen_urls)

\* a merge that keeps every article
KeepEveryArticle(articles) == articles

DeduplicateArticles(articles) == DeduplicateFrom(articles, 1, {})

\* collection_params as the evaluator and the collector read them
Plan(threshold, max_signals, batch_size, max_articles) ==
    [relevance_threshold |-> threshold, max_signals_per_pir |-> max_signals,
     ai_evaluation_batch_size |-> batch_size, max_articles_per_pir |-> max_articles]
NoPlan == Plan(0, 0, 0, 0)

\* one LLM answer and the fate of the save that may follow it
Case(resp, out) == [resp |-> resp, out |-> out]

\* the result loop of _evaluate_article_batch from result k on: a save for
\* each result that asks for one, until max_signals are created
RECURSIVE ProcessResults(_, _, _, _, _, _, _, _, _, _)
ProcessResults(db, signals_created, articles, pir, results, cases, k, threshold, max_signals, now) ==
    IF k > Len(articles) \/ signals_created >= max_signals
    THEN [db |-> db, signals_created |-> signals_created]
    ELSE IF results[k].should_create_signal
         THEN LET s == SaveAiSignal(db, articles[k], pir, results[k], cases[k].out, now,
                                    threshold)
              IN ProcessResults(s.db, signals_created + (IF s.saved THEN 1 ELSE 0),
                                articles, pir, results, cases, k + 1, threshold,
                                max_signals, now)
         ELSE ProcessResults(db, signals_created, articles, pir, results, cases, k + 1,
                             threshold, max_signals, now)

\* a batch that is given up as soon as one evaluation fails
BatchAbortsOnError(db, articles, pir, threshold, max_signals, cases, now) ==
    IF \E k \in 1..Len(articles) : cases[k].resp = ErrorResponse
    THEN [db |-> db, signals_created |-> 0]
    ELSE ProcessResults(db, 0, articles, pir,
                        [k \in 1..Len(articles) |->
                            AiEvaluateSingleArticle(cases[k].resp, threshold)],
                        cases, 1, threshold, max_signals, now)

\* a batch that reads its results in the order opposite to its articles
BatchPairsInReverse(db, articles, pir, threshold, max_signals, cases, now) ==
    ProcessResults(db, 0, articles, pir,
                   [k \in 1..Len(articles) |->
                       AiEvaluateSingleArticle(cases[Len(articles) + 1 - k].resp, threshold)],
                   cases, 1, threshold, max_signals, now)

\* AIEvaluator._evaluate_article_batch: every article of the batch is
\* evaluated (the task loop starts with signals_created = 0), then the
\* results are saved in order
EvaluateArticleBatch(db, articles, pir, threshold, max_signals, cases, now) ==
    IF max_signals <= 0 \/ articles = <<>>
    THEN [db |-> db, signals_created |-> 0]
    ELSE LET results == [k \in 1..Len(articles) |->
                            AiEvaluateSingleArticle(cases[k].resp, threshold)]
         IN ProcessResults(db, 0, articles, pir, results, cases, 1, threshold,
                           max_signals, now)

\* a batch that takes the whole rest of the list
RestOfArticles(articles, params, i) == SubSeq(articles, i + 1, Len(articles))

\* articles[i:i + batch_size]
BatchAt(articles, params, i) ==
    SubSeq(articles, i + 1, Min(i + params.ai_evaluation_batch_size, Len(articles)))

\* one turn of the loop of AIEvaluator.evaluate_articles_for_pir: the batch
\* at offset i, the counter and the offset afterwards, and whether the loop
\* ends there
EvaluateNextBatch(db, articles, pir, params, i, signals_created, cases, now) ==
    LET max_signals == params.max_signals_per_pir
        r == EvaluateArticleBatch(db, BatchAt(articles, params, i), pir,
                                  params.relevance_threshold,
                                  max_signals - signals_created, cases, now)
        created == signals_created + r.signals_created
        next_i == i + params.ai_evaluation_batch_size
    IN [db |-> r.db, i |-> next_i, signals_created |-> created,
        finished |-> (next_i >= Len(articles) \/ created >= max_signals)]

(***************************************************************************)
(* The indicators table and the PIR lists read from it.                    *)
(***************************************************************************)
\* _validate_pir_indicator rejects an indicator_text shorter than this
MinIndicatorText == 10

\* the rows of the indicators table, in the order a select returns them;
\* indicator_text is held as its length
PirRows ==
    << [id |-> "p1", pir_id |-> "g1", indicator_text |-> 20],
       [id |-> "p2", pir_id |-> "g1", indicator_text |-> 5],
       [id |-> "p3", pir_id |-> None, indicator_text |-> 20] >>

PirHasGroup(row) == row.pir_id # None

\* SupabaseClient.get_active_pir_indicators: the rows whose pir_id is set
GetActivePirIndicators == SelectSeq(PirRows, PirHasGroup)

\* AIFirstIntelligenceService._validate_pir_indicator
ValidatePirIndicator(pir) ==
    /\ pir.id # None /\ pir.id # ""
    /\ pir.indicator_text > 0
    /\ pir.pir_id # None /\ pir.pir_id # ""
    /\ pir.indicator_text >= MinIndicatorText

\* ids of a PIR list
IdsOf(pirs) == [k \in 1..Len(pirs) |-> pirs[k].id]

\* AISmartCollector._load_pir_indicators: the PIRs the collector works on
LoadPirIndicators == IdsOf(GetActivePirIndicators)

\* active_pir_indicators of the service after ai_discover_and_prioritize_pirs
ActivePirIndicators == IdsOf(SelectSeq(GetActivePirIndicators, ValidatePirIndicator))

PirIds == {LoadPirIndicators[k] : k \in 1..Len(LoadPirIndicators)}

(***************************************************************************)
(* Python floats.  The planner's arithmetic is done in IEEE 754 binary64:  *)
(* a literal is the double nearest to the decimal written, a product or a  *)
(* difference is the exact result rounded to nearest (ties to even), and   *)
(* int() cuts the fraction off.  A natural number too large for one        *)
(* machine integer is a sequence of limbs of LimbBits bits, the most       *)
(* significant first and not zero; a double is a sign, a significand m of  *)
(* MantissaBits bits and an exponent e, of value m * 2^e.                  *)
(***************************************************************************)
\* the width of the significand of a binary64
MantissaBits == 53

\* the width of a limb
LimbBits == 13

RECURSIVE Pow2(_)
Pow2(k) == IF k = 0 THEN 1 ELSE 2 * Pow2(k - 1)

Base == Pow2(LimbBits)

\* the limbs of an int n >= 0, and the int of a short limb sequence
RECURSIVE NatOf(_)
NatOf(n) == IF n = 0 THEN <<>> ELSE Append(NatOf(n \div Base), n % Base)

RECURSIVE IntOf(_)
IntOf(a) == IF a = <<>> THEN 0 ELSE Base * IntOf(SubSeq(a, 1, Len(a) - 1)) + a[Len(a)]

Zeros(k) == [i \in 1..k |-> 0]

RECURSIVE Strip(_)
Strip(a) == IF a # <<>> /\ a[1] = 0 THEN Strip(Tail(a)) ELSE a

Front(a) == IF a = <<>> THEN <<>> ELSE SubSeq(a, 1, Len(a) - 1)
LastLimb(a) == IF a = <<>> THEN 0 ELSE a[Len(a)]

\* a + b + c, for a carry c
RECURSIVE AddCarry(_, _, _)
AddCarry(a, b, c) ==
    IF a = <<>> /\ b = <<>> THEN (IF c = 0 THEN <<>> ELSE <<c>>)
    ELSE LET s == LastLimb(a) + LastLimb(b) + c
         IN Append(AddCarry(Front(a), Front(b), s \div Base), s % Base)

AddNat(a, b) == Strip(AddCarry(a, b, 0))

\* a - b - c for a >= b + c, for a borrow c
RECURSIVE SubBorrow(_, _, _)
SubBorrow(a, b, c) ==
    IF a = <<>> THEN <<>>
    ELSE LET d == LastLimb(a) - LastLimb(b) - c
         IN Append(SubBorrow(Front(a), Front(b), IF d < 0 THEN 1 ELSE 0),
                   IF d < 0 THEN d + Base ELSE d)

SubNat(a, b) == Strip(SubBorrow(a, b, 0))

\* a < b, for sequences of one length
RECURSIVE LexLess(_, _)
LexLess(a, b) ==
    /\ a # <<>>
    /\ \/ a[1] < b[1]
       \/ a[1] = b[1] /\ LexLess(Tail(a), Tail(b))

NatLess(a, b) == Len(a) < Len(b) \/ (Len(a) = Len(b) /\ LexLess(a, b))

\* a * d + c for one limb d and a carry c
RECURSIVE MulCarry(_, _, _)
MulCarry(a, d, c) ==
    IF a = <<>> THEN (IF c = 0 THEN <<>> ELSE <<c>>)
    ELSE LET s == LastLimb(a) * d + c
         IN Append(MulCarry(Front(a), d, s \div Base), s % Base)

MulSmall(a, d) == Strip(MulCarry(a, d, 0))

\* acc * Base^Len(b) + a * b, one limb of b at a time
RECURSIVE MulAcc(_, _, _)
MulAcc(a, b, acc) ==
    IF b = <<>> THEN acc
    ELSE MulAcc(a, Tail(b), AddNat(IF acc = <<>> THEN <<>> ELSE Append(acc, 0),
                                   MulSmall(a, b[1])))

MulNat(a, b) == MulAcc(a, b, <<>>)

\* long division by a number q < Base: quotient and remainder
RECURSIVE DivAcc(_, _, _, _)
DivAcc(a, q, rem, acc) ==
    IF a = <<>> THEN [quot |-> Strip(acc), rem |-> rem]
    ELSE LET r == Base * rem + a[1]
         IN DivAcc(Tail(a), q, r % q, Append(acc, r \div q))

DivSmall(a, q) == DivAcc(a, q, 0, <<>>)

\* the number of bits of an int n >= 0, and of a natural number
RECURSIVE BitLenInt(_)
BitLenInt(n) == IF n = 0 THEN 0 ELSE 1 + BitLenInt(n \div 2)

BitLen(a) == IF a = <<>> THEN 0 ELSE LimbBits * (Len(a) - 1) + BitLenInt(a[1])

\* a * 2^k
ShiftLeft(a, k) ==
    IF a = <<>> THEN <<>>
    ELSE MulSmall(a, Pow2(k % LimbBits)) \o Zeros(k \div LimbBits)

\* a \div 2^k, and whether a nonzero remainder was dropped
ShiftRight(a, k) ==
    LET whole == k \div LimbBits
        high == IF whole >= Len(a) THEN <<>> ELSE SubSeq(a, 1, Len(a) - whole)
        low == IF whole >= Len(a) THEN a ELSE SubSeq(a, Len(a) - whole + 1, Len(a))
        d == DivSmall(high, Pow2(k % LimbBits))
    IN [quot |-> d.quot, sticky |-> d.rem # 0 \/ \E i \in 1..Len(low) : low[i] # 0]

\* a double: sign, significand, exponent
Double(neg, m, e) == [neg |-> neg, m |-> m, e |-> e]
FloatZero == Double(FALSE, <<>>, 0)

\* the double nearest to n * 2^e (ties to even); sticky tells that n itself
\* lost a nonzero fraction
RoundToDouble(neg, n, e, sticky) ==
    IF n = <<>> THEN FloatZero
    ELSE IF BitLen(n) <= MantissaBits
    THEN Double(neg, ShiftLeft(n, MantissaBits - BitLen(n)), e - (MantissaBits - BitLen(n)))
    ELSE LET drop == BitLen(n) - MantissaBits
             sh == ShiftRight(n, drop - 1)
             guard == LastLimb(sh.quot) % 2
             kept == DivSmall(sh.quot, 2).quot
             more == sticky \/ sh.sticky
             up == guard = 1 /\ (more \/ LastLimb(kept) % 2 = 1)
             m == IF up THEN AddNat(kept, <<1>>) ELSE kept
         IN IF BitLen(m) > MantissaBits
            THEN Double(neg, DivSmall(m, 2).quot, e + drop + 1)
            ELSE Double(neg, m, e + drop)

\* float(n) for an int n >= 0
FloatOfInt(n) == RoundToDouble(FALSE, NatOf(n), 0, FALSE)

\* the number of bits kept below the point when a decimal literal is read
LiteralBits == 64

\* the float literal written as the decimal p/q, q < Base
Literal(p, q) ==
    LET d == DivSmall(ShiftLeft(NatOf(p), LiteralBits), q)
    IN RoundToDouble(FALSE, d.quot, 0 - LiteralBits, d.rem # 0)

\* x * y
FloatMul(x, y) == RoundToDouble(x.neg # y.neg, MulNat(x.m, y.m), x.e + y.e, FALSE)

\* |x| < |y|
MagLess(x, y) ==
    IF y.m = <<>> THEN FALSE
    ELSE IF x.m = <<>> THEN TRUE
    ELSE x.e < y.e \/ (x.e = y.e /\ LexLess(x.m, y.m))

\* x < y
FloatLess(x, y) ==
    IF x.neg # y.neg THEN x.neg /\ (x.m # <<>> \/ y.m # <<>>)
    ELSE IF x.neg THEN MagLess(y, x) ELSE MagLess(x, y)

\* x - y for x, y >= 0
FloatSub(x, y) ==
    LET e == IF x.e < y.e THEN x.e ELSE y.e
        a == ShiftLeft(x.m, x.e - e)
        b == ShiftLeft(y.m, y.e - e)
    IN IF NatLess(a, b) THEN RoundToDouble(TRUE, SubNat(b, a), e, FALSE)
       ELSE RoundToDouble(FALSE, SubNat(a, b), e, FALSE)

\* max(a, b) and min(a, b) as Python computes them
FloatMax(a, b) == IF FloatLess(a, b) THEN b ELSE a
FloatMin(a, b) == IF FloatLess(b, a) THEN b ELSE a

\* int(x) for x >= 0
IntOfFloat(x) ==
    IF x.m = <<>> THEN 0
    ELSE IF x.e >= 0 THEN IntOf(ShiftLeft(x.m, x.e))
    ELSE IntOf(ShiftRight(x.m, 0 - x.e).quot)

(***************************************************************************)
(* Values of the campaign's state.                                         *)
(***************************************************************************)
\* relevance_threshold when collection_params carries none
DefaultThreshold == 30
\* the threshold the feed monitor passes to the evaluation
RssThreshold == 30

\* the collector's task for one PIR: where it stands, the articles it
\* collected, the offset of the next batch and signals_created
Task(pc, articles, i, signals_created) ==
    [pc |-> pc, articles |-> articles, i |-> i, signals_created |-> signals_created]
IdleTask == Task("idle", <<>>, 0, 0)

\* the filing loop: index of the PIR in turn, batch offset, signals_created
SecLoop(k, i, signals_created) == [k |-> k, i |-> i, signals_created |-> signals_created]
NoSec == SecLoop(0, 0, 0)

NoSave == [made |-> FALSE, writer |-> None, pir |-> None, url |-> None,
           source_id |-> NoId, source_found |-> FALSE, wrote |-> FALSE,
           decision |-> Missing, score |-> 0, reasoning |-> 0, campaign_threshold |-> 0]
NoEval == [made |-> FALSE, resp |-> EmptyResponse, threshold |-> 0,
           result |-> NoSignalResult]
NoRss == [client |-> FALSE, context |-> FALSE]

VARIABLES
    \* the database
    sources,      \* signal_sources: set of rows
    signals,      \* signals: set of rows
    nextId,       \* the next id the database hands out
    clock,        \* the time requests are stamped with
    \* the source-table model: writers, each inside one call
    wpc,          \* writer -> "idle" | "selected"
    wcall,        \* writer -> the call it is in: [kind, name, url]
    wfound,       \* writer -> the id its select returned, or NoId
    last,         \* the call that returned last
    hist,         \* the distinct calls started so far
    calls,        \* calls started so far
    overlapped,   \* whether two calls were ever in flight together
    startTbl,     \* the table the run started from
    uniqueKey,    \* whether the table has a unique key on (name, url)
    \* the campaign and the evaluator
    phase,        \* where execute_ai_strategic_backfill stands
    mainPlan,     \* collection_params of the service's own strategy
    collectorPlan,\* collection_params of the collector's strategy
    task,         \* PIR id -> the collector's task for that PIR
    sec,          \* the filing evaluation loop: PIR index, batch offset, counter
    filings,      \* the filing list handed to the evaluator
    lastSave,     \* the last signal save attempted, with its outcome
    lastEval,     \* what the last single-article evaluation was given and returned
    rss,          \* the feed monitor: has a database client, has a strategic context
    evals,        \* evaluate calls made so far in the evaluator model
    \* the planner
    plannerResponse, \* what the LLM answers to the strategic analysis call
    pirCount,     \* len(pirs) handed to the planner
    controllerContext, \* AIStrategicController.strategic_context
    planned,      \* what the planner returned, or that it raised
    paramLog,     \* the derivations of collection_params made so far
    \* one run of collect_strategic_intelligence
    run,          \* the step the run has reached, its inputs and its counters
    pirStep,      \* PIR id -> where its _collect_for_strategic_pir task stands
    \* one batch of evaluations
    batch,        \* the last batch evaluated, with what it was given
    \* the discovery layer
    validation,   \* the last response a validator judged, and its verdict
    feeds,        \* the last discover_feeds_from_ai_recommendations call
    \* the feed monitor's entry store
    monitor,      \* entry_hashes, feed_entries and the entries accepted so far
    \* the collector's search backend for one PIR
    collection,   \* the last _collect_for_strategic_pir call up to its evaluation
    \* the filing backend
    parsed,       \* the last listing _parse_sec_rss_feed was given, and its filings
    \* the publish time of a signal
    publish,      \* the last article _save_ai_signal was given, and the published_date it wrote
    \* the evaluations of one PIR, call by call
    flight,       \* the batch loop of evaluate_articles_for_pir and the calls in flight
    \* the endpoint sweep, probe by probe
    sweep,        \* the hosts and paths probed by _fast_domain_endpoint_testing
    \* the feed monitor's subscriptions
    subs          \* active_feeds and the feeds_monitored counter

dbVars == <<sources, signals, nextId, clock>>
srcVars == <<wpc, wcall, wfound, last, hist, calls, overlapped, startTbl, uniqueKey>>
campVars == <<phase, mainPlan, collectorPlan, task, sec, filings>>
evalVars == <<lastSave, lastEval, rss, evals>>
planVars == <<plannerResponse, pirCount, controllerContext, planned, paramLog>>
runVars == <<run, pirStep>>
moreVars == <<validation, feeds, monitor, collection, parsed>>
lastVars == <<publish, flight, sweep, subs>>
laterVars == <<planVars, runVars, batch, moreVars, lastVars>>
vars == <<dbVars, srcVars, campVars, evalVars, laterVars>>

(***************************************************************************)
(* The planner: AIStrategicController turns the LLM's strategic analysis   *)
(* into collection_params.                                                 *)
(***************************************************************************)
Urgencies == {"crisis", "strategic", "long_term"}
Intensities == {"light", "standard", "intensive", "comprehensive"}
ThresholdTypes == {"very_selective", "selective", "balanced", "inclusive"}

\* the keys of the JSON object the prompt asks for, cross_pir_analysis aside
PlannerFields ==
    {"strategic_approach", "intelligence_domains", "urgency_level", "collection_intensity",
     "relevance_threshold", "source_priorities", "confidence_score", "reasoning"}

\* required_fields of _ai_generate_unified_strategy
required_fields ==
    {"strategic_approach", "intelligence_domains", "urgency_level", "collection_intensity",
     "relevance_threshold"}

\* what _call_openai_strategic_analysis gives: a decoded JSON object with
\* the keys it has and the values of the keys that are read, or a failure
\* ("not_json", "http_error", "timeout")
StrategyResponse(kind, keys, urgency, intensity, threshold_type) ==
    [kind |-> kind, keys |-> keys, urgency_level |-> urgency,
     collection_intensity |-> intensity, relevance_threshold |-> threshold_type,
     confidence_score |-> IF kind = "json" THEN 90 ELSE 0]

PlannerFailures == {"not_json", "http_error", "timeout"}
NoResponse == StrategyResponse(None, {}, None, None, None)

\* dict.get(key, default)
Get(d, key, default) == IF key \in d.keys THEN d[key] ELSE default

\* base_volumes.get(intensity, 500)
BaseVolume(intensity) ==
    CASE intensity = "light" -> 200
      [] intensity = "standard" -> 500
      [] intensity = "intensive" -> 1000
      [] intensity = "comprehensive" -> 2000
      [] OTHER -> 500

\* a volume that does not depend on the number of PIRs
UnscaledVolume(intensity, pir_count) == BaseVolume(intensity)

\* _calculate_collection_volume
CalculateCollectionVolume(intensity, pir_count) ==
    LET base == BaseVolume(intensity)
    IN IF pir_count > 5
       THEN LET scaling_factor ==
                    FloatMax(Literal(5, 10),
                             FloatSub(Literal(1, 1),
                                      FloatMul(FloatOfInt(pir_count - 5), Literal(1, 10))))
            IN IntOfFloat(FloatMul(FloatOfInt(base), scaling_factor))
       ELSE base

\* the threshold of _calculate_relevance_threshold before it is clamped
AdjustedThreshold(threshold_type, urgency) ==
    LET threshold == CASE threshold_type = "very_selective" -> Literal(7, 10)
                       [] threshold_type = "selective" -> Literal(5, 10)
                       [] threshold_type = "balanced" -> Literal(3, 10)
                       [] threshold_type = "inclusive" -> Literal(15, 100)
                       [] OTHER -> Literal(3, 10)
    IN IF urgency = "crisis" THEN FloatMul(threshold, Literal(7, 10))
       ELSE IF urgency = "long_term" THEN FloatMul(threshold, Literal(12, 10))
       ELSE threshold

\* a threshold returned without `max(0.1, min(0.8, threshold))`
UnclampedThreshold(threshold_type, urgency) == AdjustedThreshold(threshold_type, urgency)

\* _calculate_relevance_threshold
CalculateRelevanceThreshold(threshold_type, urgency) ==
    FloatMax(Literal(1, 10), FloatMin(Literal(8, 10), AdjustedThreshold(threshold_type, urgency)))

\* _calculate_timeout
CalculateTimeout(urgency, intensity) ==
    LET timeout == CASE urgency = "crisis" -> 180
                     [] urgency = "strategic" -> 300
                     [] urgency = "long_term" -> 450
                     [] OTHER -> 300
    IN IF intensity = "comprehensive"
       THEN IntOfFloat(FloatMul(FloatOfInt(timeout), Literal(15, 10)))
       ELSE IF intensity = "light"
       THEN IntOfFloat(FloatMul(FloatOfInt(timeout), Literal(7, 10)))
       ELSE timeout

\* _calculate_ai_batch_size
CalculateAiBatchSize(intensity) ==
    CASE intensity = "light" -> 20
      [] intensity = "standard" -> 30
      [] intensity = "intensive" -> 50
      [] intensity = "comprehensive" -> 100
      [] OTHER -> 30

\* _calculate_max_signals
CalculateMaxSignals(intensity) ==
    CASE intensity = "light" -> 15
      [] intensity = "standard" -> 25
      [] intensity = "intensive" -> 50
      [] intensity = "comprehensive" -> 100
      [] OTHER -> 25

\* the params dict of _ai_determine_collection_parameters
CollectionParams(urgency, intensity, threshold_type, pir_count) ==
    [max_articles_per_pir |-> CalculateCollectionVolume(intensity, pir_count),
     relevance_threshold |-> CalculateRelevanceThreshold(threshold_type, urgency),
     parallel_processing |-> TRUE,
     collection_timeout |-> CalculateTimeout(urgency, intensity),
     intensity_level |-> intensity,
     urgency_level |-> urgency,
     ai_evaluation_batch_size |-> CalculateAiBatchSize(intensity),
     max_signals_per_pir |-> CalculateMaxSignals(intensity)]

\* a derivation that counts the PIRs of the derivations made before as well
HistoryDependentParameters(strategy, pir_count) ==
    CollectionParams(Get(strategy, "urgency_level", "strategic"),
                     Get(strategy, "collection_intensity", "standard"),
                     Get(strategy, "relevance_threshold", "balanced"),
                     pir_count + 5 * Len(paramLog))

\* _ai_determine_collection_parameters
DetermineCollectionParameters(strategy, pir_count) ==
    CollectionParams(Get(strategy, "urgency_level", "strategic"),
                     Get(strategy, "collection_intensity", "standard"),
                     Get(strategy, "relevance_threshold", "balanced"),
                     pir_count)

\* _ai_generate_unified_strategy: whether it returns the response (it raises
\* otherwise)
StrategyAccepted(response) ==
    /\ response.kind = "json"
    /\ response.keys # {}
    /\ "strategic_approach" \in response.keys
    /\ \A field \in required_fields : field \in response.keys

NoParams == CollectionParams(None, None, None, 0)
NoPlanned == [status |-> "none", strategy |-> NoResponse, collection_params |-> NoParams, ai_confidence |-> 0]

\* analyze_strategic_context_and_generate_collection_strategy: the dict
\* returned, or that ValueError was raised
AnalyzeStrategicContext(response, pir_count) ==
    IF ~StrategyAccepted(response)
    THEN [NoPlanned EXCEPT !.status = "failed"]
    ELSE [status |-> "ok",
          strategy |-> response,
          collection_params |-> DetermineCollectionParameters(response, pir_count),
          ai_confidence |-> Get(response, "confidence_score", 80)]

\* one derivation, as the log keeps it
Derivation(strategy, pir_count, params) == [strategy |-> strategy, pir_count |-> pir_count, params |-> params]

\* the planner, the run and the batch before anything happened
PlannerIdle ==
    /\ plannerResponse = NoResponse
    /\ pirCount = 0
    /\ controllerContext = None
    /\ planned = NoPlanned
    /\ paramLog = <<>>

\* one run of collect_strategic_intelligence: the step reached, what the
\* steps were given, and how often the later steps have acted
\* collection_stats as the final results carry it
CollectionStats(articles, created, evaluation_calls, discovered) ==
    [total_articles_processed |-> articles, total_signals_created |-> created,
     ai_evaluation_calls |-> evaluation_calls, sources_discovered |-> discovered]

\* rss_sources is what step 4 hands to step 5 and `validated` the number of
\* feeds the validation found; `issued` counts the evaluations issued and
\* `failed` counts the evaluations that ended in an error, a timeout or an
\* answer that is no JSON; total_evaluations is evaluation_stats of the
\* evaluator the tasks share; `expired` says that collection_timeout seconds
\* have passed since the run began
Run(stage, context, pirs, plan, discovery, found, error) ==
    [stage |-> stage, context |-> context, pirs |-> pirs, plan |-> plan,
     discovery |-> discovery, sources |-> found, error |-> error,
     discoveries |-> 0, fetches |-> 0, evaluations |-> 0, writes |-> 0,
     failed |-> 0, total_evaluations |-> 0, ai_evaluation_calls |-> 0,
     rss_sources |-> [pair |-> FALSE, len |-> 0, feeds |-> 0], validated |-> 0, issued |-> 0,
     summary |-> CollectionStats(0, 0, 0, 0), expired |-> FALSE]
NoRun == Run("idle", None, None, None, None, 0, None)

\* the task of one PIR: not finished collecting ("idle"), collected with
\* articles, collected nothing ("empty"), or evaluated
PirTask(pc, articles) == [pc |-> pc, articles |-> articles]

RunIdle ==
    /\ run = NoRun
    /\ pirStep = [p \in PirIds |-> PirTask("idle", 0)]

\* one batch handed to _evaluate_article_batch, and what came of it
NoBatch == [made |-> FALSE, cases |-> <<>>, max_signals |-> 0, signals_created |-> 0]

BatchIdle == batch = NoBatch

\* one response handed to a validator of the discovery layer
NoValidation ==
    [made |-> FALSE, validator |-> "none", kind |-> "none", status |-> 0, body |-> <<>>,
     valid |-> FALSE]

\* one call of discover_feeds_from_ai_recommendations: the candidates, the
\* URLs that answer as feeds, and the tuple returned
NoFeeds ==
    [made |-> FALSE, given |-> <<>>, ai_sources |-> <<>>, web |-> {}, sweeps |-> FALSE,
     validated_feeds |-> <<>>, failed_feed_names |-> <<>>]

\* RSSMonitor after construction: no hash, no stored entry; `accepted` lists
\* the entries taken as new so far
NoMonitor ==
    [subscribed |-> FALSE, entry_hashes |-> {}, feed_entries |-> <<>>, accepted |-> <<>>,
     calls |-> 0]

\* one call of _collect_for_strategic_pir up to the evaluation
NoCollection ==
    [made |-> FALSE, text |-> 0, answer |-> [kind |-> "none", n |-> 0], max_articles |-> 0,
     queries |-> <<>>,
     searched |-> <<>>, results |-> <<>>, all_articles |-> <<>>, abandoned |-> FALSE]

\* one call of _parse_sec_rss_feed
NoParsed == [made |-> FALSE, entries |-> <<>>, filings |-> <<>>]

\* one call of _save_ai_signal, as far as the publish time goes
NoPublish ==
    [made |-> FALSE, published |-> [kind |-> "absent"], out |-> "none", wrote |-> FALSE,
     published_date |-> [kind |-> "null"]]

\* evaluate_articles_for_pir before it is called: i and signals_created of
\* its loop, the batch gathered, k and the counter of the result loop, the
\* state of each call, the batch each call started in, the batches begun and
\* finished, and the articles whose signal was written
NoFlight ==
    [pc |-> "idle", articles |-> <<>>, params |-> NoPlan, i |-> 0, signals_created |-> 0,
     current |-> <<>>, k |-> 0, batch_created |-> 0,
     status |-> [a \in FlightIds |-> "waiting"], started_in |-> [a \in FlightIds |-> 0],
     begun |-> 0, finished |-> 0, written |-> {}]
NoSweep ==
    [made |-> FALSE, domains |-> <<>>, web |-> {}, i |-> 1, gathering |-> FALSE,
     entries |-> <<>>, validated_feeds |-> <<>>, returned |-> FALSE]
NoSubs ==
    [active_feeds |-> {}, feeds_monitored |-> 0, calls |-> 0,
     last |-> [op |-> "none", url |-> <<"", "">>, returned |-> FALSE]]

LastIdle ==
    /\ publish = NoPublish
    /\ flight = NoFlight
    /\ sweep = NoSweep
    /\ subs = NoSubs

MoreIdle ==
    /\ validation = NoValidation
    /\ feeds = NoFeeds
    /\ monitor = NoMonitor
    /\ collection = NoCollection
    /\ parsed = NoParsed

LaterIdle == PlannerIdle /\ RunIdle /\ BatchIdle /\ MoreIdle /\ LastIdle

\* the state of the models written first, as the later models leave it
earlierVars == <<dbVars, srcVars, campVars, evalVars>>

(***************************************************************************)
(* The source table under writers whose requests interleave.  A writer is  *)
(* another service process or the API thread started in main(); a call is  *)
(* SupabaseClient.create_or_get_signal_source ("client") or                *)
(* SupabaseManager.create_or_update_source ("manager").  Each call is two  *)
(* database requests: the select, then the update or the insert.           *)
(***************************************************************************)
Writers == {"w1", "w2"}
CallKinds == {"client", "manager"}
NoCall == [kind |-> None, name |-> None, url |-> None]
NoLast == [kind |-> None, name |-> None, url |-> None, ret |-> NoId,
           existed |-> FALSE, inserted |-> FALSE, changed |-> {}]

\* rows a table may hold before the run: written by earlier runs
SeedRows == {SourceRow(1, "n1", "u2", "API", NullTime), SourceRow(2, "n2", "u1", "RSS", NullTime)}

\* the columns in which row id differs between two tables
ChangedColumns(before, after, id) ==
    LET b == CHOOSE r \in before : r.id = id
        a == CHOOSE r \in after : r.id = id
    IN {c \in {"source_name", "source_url", "source_type", "last_checked"} : a[c] # b[c]}

InitSource ==
    /\ startTbl \in SUBSET SeedRows
    /\ sources = startTbl
    /\ uniqueKey \in BOOLEAN
    /\ signals = {}
    /\ nextId = 3
    /\ clock = 1
    /\ wpc = [w \in Writers |-> "idle"]
    /\ wcall = [w \in Writers |-> NoCall]
    /\ wfound = [w \in Writers |-> NoId]
    /\ last = NoLast
    /\ hist = {}
    /\ calls = 0
    /\ overlapped = FALSE
    /\ phase = "idle"
    /\ mainPlan = NoPlan
    /\ collectorPlan = NoPlan
    /\ task = [p \in PirIds |-> IdleTask]
    /\ sec = NoSec
    /\ filings = <<>>
    /\ lastSave = NoSave
    /\ lastEval = NoEval
    /\ rss = NoRss
    /\ evals = 0
    /\ LaterIdle

\* the first request of a call: the select (by name for the client, by URL
\* for the manager, which skips it for an empty URL); data[0] is any of the
\* rows that match, the select carrying no ORDER BY
BeginCall(w, kind, name, url) ==
    /\ wpc[w] = "idle"
    /\ calls < MaxCalls
    /\ LET data == IF kind = "client" THEN SelectByName(sources, name)
                   ELSE SelectByUrl(sources, url)
       IN \E f \in (IF data = {} THEN {NoId} ELSE {r.id : r \in data}) :
              wfound' = [wfound EXCEPT ![w] = f]
    /\ wpc' = [wpc EXCEPT ![w] = "selected"]
    /\ wcall' = [wcall EXCEPT ![w] = [kind |-> kind, name |-> name, url |-> url]]
    /\ hist' = hist \cup {[kind |-> kind, name |-> name, url |-> url]}
    /\ calls' = calls + 1
    /\ overlapped' = (overlapped \/ \E v \in Writers \ {w} : wpc[v] = "selected")
    /\ UNCHANGED <<dbVars, last, startTbl, uniqueKey, campVars, evalVars, laterVars>>

\* the second request of a client call: update last_checked of the row
\* found, or insert the new row; a refused insert raises and returns None
FinishClient(w) ==
    /\ wpc[w] = "selected"
    /\ wcall[w].kind = "client"
    /\ LET c == wcall[w]
           existed == RowsFor(sources, c.name, c.url) # {}
       IN IF wfound[w] # NoId
          THEN /\ sources' = TouchLastChecked(sources, wfound[w], clock)
               /\ nextId' = nextId
               /\ last' = [kind |-> c.kind, name |-> c.name, url |-> c.url,
                           ret |-> wfound[w], existed |-> existed, inserted |-> FALSE,
                           changed |-> ChangedColumns(sources, sources', wfound[w])]
          ELSE IF InsertAccepted(sources, c.name, c.url, uniqueKey)
          THEN /\ sources' = sources \cup {SourceRow(nextId, c.name, c.url, "API", clock)}
               /\ nextId' = nextId + 1
               /\ last' = [kind |-> c.kind, name |-> c.name, url |-> c.url,
                           ret |-> nextId, existed |-> existed, inserted |-> TRUE,
                           changed |-> {}]
          ELSE /\ UNCHANGED <<sources, nextId>>
               /\ last' = [kind |-> c.kind, name |-> c.name, url |-> c.url,
                           ret |-> NoId, existed |-> existed, inserted |-> FALSE,
                           changed |-> {}]
    /\ clock' = clock + 1
    /\ wpc' = [wpc EXCEPT ![w] = "idle"]
    /\ wcall' = [wcall EXCEPT ![w] = NoCall]
    /\ wfound' = [wfound EXCEPT ![w] = NoId]
    /\ UNCHANGED <<signals, hist, calls, overlapped, startTbl, uniqueKey, campVars, evalVars, laterVars>>

\* the second request of a manager call: update the row found with the
\* call's name, type and URL, or insert the new row (without last_checked)
FinishManager(w) ==
    /\ wpc[w] = "selected"
    /\ wcall[w].kind = "manager"
    /\ LET c == wcall[w]
           existed == RowsFor(sources, c.name, c.url) # {}
       IN IF wfound[w] # NoId
          THEN IF UpdateAccepted(sources, wfound[w], c.name, c.url, uniqueKey)
               THEN /\ sources' = UpdateSource(sources, wfound[w], c.name, c.url, "RSS")
                    /\ nextId' = nextId
                    /\ last' = [kind |-> c.kind, name |-> c.name, url |-> c.url,
                                ret |-> wfound[w], existed |-> existed, inserted |-> FALSE,
                                changed |-> ChangedColumns(sources, sources', wfound[w])]
               ELSE /\ UNCHANGED <<sources, nextId>>
                    /\ last' = [kind |-> c.kind, name |-> c.name, url |-> c.url,
                                ret |-> NoId, existed |-> existed, inserted |-> FALSE,
                                changed |-> {}]
          ELSE IF InsertAccepted(sources, c.name, c.url, uniqueKey)
          THEN /\ sources' = sources \cup {SourceRow(nextId, c.name, c.url, "RSS", NullTime)}
               /\ nextId' = nextId + 1
               /\ last' = [kind |-> c.kind, name |-> c.name, url |-> c.url,
                           ret |-> nextId, existed |-> existed, inserted |-> TRUE,
                           changed |-> {}]
          ELSE /\ UNCHANGED <<sources, nextId>>
               /\ last' = [kind |-> c.kind, name |-> c.name, url |-> c.url,
                           ret |-> NoId, existed |-> existed, inserted |-> FALSE,
                           changed |-> {}]
    /\ clock' = clock + 1
    /\ wpc' = [wpc EXCEPT ![w] = "idle"]
    /\ wcall' = [wcall EXCEPT ![w] = NoCall]
    /\ wfound' = [wfound EXCEPT ![w] = NoId]
    /\ UNCHANGED <<signals, hist, calls, overlapped, startTbl, uniqueKey, campVars, evalVars, laterVars>>

NextSource ==
    \/ \E w \in Writers, k \in CallKinds, n \in Names, u \in Urls : BeginCall(w, k, n, u)
    \/ \E w \in Writers : FinishClient(w)
    \/ \E w \in Writers : FinishManager(w)

SpecSource == InitSource /\ [][NextSource]_vars

(***************************************************************************)
(* The campaign: execute_ai_strategic_backfill.  The collector plans,      *)
(* starts one task per PIR (asyncio.gather), each task collects its        *)
(* articles and evaluates them batch by batch; then the service evaluates  *)
(* the filing list for each of its PIRs in turn, with its own plan.        *)
(* Tasks give way to each other at the awaits of the LLM calls, that is    *)
(* between batches; the database client is synchronous, so a save is not   *)
(* interrupted.                                                            *)
(***************************************************************************)
\* the plans a strategy may carry
Plans ==
    {Plan(DefaultThreshold, m, b, 2 * MaxArticles) : m \in 1..MaxCap, b \in 1..MaxBatch}

\* the answers of the evaluation LLM in the campaign model
CampaignResponses ==
    {Response("dict", Num(60), "include", 40), Response("dict", Num(10), "exclude", 40)}
CampaignCases == {Case(r, o) : r \in CampaignResponses, o \in Outcomes}

CurrentDb == Db(sources, signals, nextId, lastSave)

\* the database and the save record take the values a save left
DbBecomes(db) ==
    /\ sources' = db.sources
    /\ signals' = db.signals
    /\ nextId' = db.nextId
    /\ lastSave' = db.lastSave

\* the variables of the source-table model and of the evaluator model that
\* the campaign never touches
campIdle == <<clock, srcVars, lastEval, rss, evals, laterVars>>

InitCampaign ==
    /\ sources = {}
    /\ signals = {}
    /\ nextId = 1
    /\ clock = 1
    /\ wpc = [w \in Writers |-> "idle"]
    /\ wcall = [w \in Writers |-> NoCall]
    /\ wfound = [w \in Writers |-> NoId]
    /\ last = NoLast
    /\ hist = {}
    /\ calls = 0
    /\ overlapped = FALSE
    /\ startTbl = {}
    /\ uniqueKey = FALSE
    /\ phase = "start"
    /\ mainPlan \in Plans
    /\ collectorPlan = NoPlan
    /\ task = [p \in PirIds |-> IdleTask]
    /\ sec = NoSec
    /\ filings = <<>>
    /\ lastSave = NoSave
    /\ lastEval = NoEval
    /\ rss = NoRss
    /\ evals = 0
    /\ LaterIdle

\* collect_strategic_intelligence, steps 1 to 5: context and PIRs load, the
\* planner answers, one task per PIR is started
StartCollection(plan) ==
    /\ phase = "start"
    /\ collectorPlan' = plan
    /\ task' = [p \in PirIds |-> Task("collect", <<>>, 0, 0)]
    /\ phase' = "news"
    /\ UNCHANGED <<dbVars, lastSave, mainPlan, sec, filings, campIdle>>

\* collect_strategic_intelligence raises before any task starts (no context,
\* no PIR, planner failure): the result carries 'error' and the backfill
\* returns False
CollectionFails ==
    /\ phase = "start"
    /\ phase' = "failed"
    /\ UNCHANGED <<dbVars, lastSave, mainPlan, collectorPlan, task, sec, filings, campIdle>>

\* _collect_for_strategic_pir up to the evaluation: the search results of
\* the queries, deduplicated by URL and cut to the budget; a task without
\* articles ends here
CollectForPir(p, raw) ==
    /\ phase = "news"
    /\ task[p].pc = "collect"
    /\ LET max_articles == collectorPlan.max_articles_per_pir \div 2
           all_articles == Take(DeduplicateArticles(raw), max_articles)
       IN task' = [task EXCEPT ![p] =
                      Task(IF all_articles = <<>> THEN "done" ELSE "evaluate",
                           all_articles, 0, 0)]
    /\ UNCHANGED <<dbVars, lastSave, phase, mainPlan, collectorPlan, sec, filings, campIdle>>

\* one batch of evaluate_articles_for_pir inside the task of PIR p
EvaluateNewsBatch(p) ==
    /\ phase = "news"
    /\ task[p].pc = "evaluate"
    /\ LET t == task[p]
       IN \E cases \in [1..Len(BatchAt(t.articles, collectorPlan, t.i)) -> CampaignCases] :
              LET r == EvaluateNextBatch(CurrentDb, t.articles, p, collectorPlan,
                                         t.i, t.signals_created, cases, clock)
              IN /\ DbBecomes(r.db)
                 /\ task' = [task EXCEPT ![p] =
                                Task(IF r.finished THEN "done" ELSE "evaluate",
                                     t.articles, r.i, r.signals_created)]
    /\ UNCHANGED <<phase, mainPlan, collectorPlan, sec, filings, campIdle>>

\* the collection has returned; collect_sec_filings_for_evaluation yields
\* the filing list (empty when no company was discovered or none filed)
CollectSecFilings(sec_articles) ==
    /\ phase = "news"
    /\ \A p \in PirIds : task[p].pc = "done"
    /\ filings' = sec_articles
    /\ IF sec_articles = <<>> \/ ActivePirIndicators = <<>>
       THEN phase' = "done" /\ sec' = NoSec
       ELSE phase' = "sec" /\ sec' = SecLoop(1, 0, 0)
    /\ UNCHANGED <<dbVars, lastSave, mainPlan, collectorPlan, task, campIdle>>

\* one batch of evaluate_articles_for_pir(sec_articles, pir, ...) for the
\* PIR in turn; the call starts with its own signals_created = 0
EvaluateSecBatch ==
    /\ phase = "sec"
    /\ LET pir == ActivePirIndicators[sec.k]
       IN \E cases \in [1..Len(BatchAt(filings, mainPlan, sec.i)) -> CampaignCases] :
              LET r == EvaluateNextBatch(CurrentDb, filings, pir, mainPlan,
                                         sec.i, sec.signals_created, cases, clock)
              IN /\ DbBecomes(r.db)
                 /\ IF ~r.finished
                    THEN phase' = phase /\ sec' = SecLoop(sec.k, r.i, r.signals_created)
                    ELSE IF sec.k < Len(ActivePirIndicators)
                    THEN phase' = phase /\ sec' = SecLoop(sec.k + 1, 0, 0)
                    ELSE phase' = "done" /\ sec' = NoSec
    /\ UNCHANGED <<mainPlan, collectorPlan, task, filings, campIdle>>

Next ==
    \/ \E plan \in Plans : StartCollection(plan)
    \/ CollectionFails
    \/ \E p \in PirIds, raw \in SeqUpTo(NewsArticles, MaxArticles) : CollectForPir(p, raw)
    \/ \E p \in PirIds : EvaluateNewsBatch(p)
    \/ \E sec_articles \in SeqUpTo(FilingArticles, MaxFilings) : CollectSecFilings(sec_articles)
    \/ EvaluateSecBatch

Spec == InitCampaign /\ [][Next]_vars

(***************************************************************************)
(* The evaluator on its own: one evaluate_articles_for_pir call per step,  *)
(* for one article and any answer of the LLM, beside the feed monitor's    *)
(* evaluation of one entry.                                                *)
(***************************************************************************)
\* most evaluations made in one run of the evaluator model
MaxEvals == 2

EvalThresholds == {30, 50}
EvalScores == {NoScore, BadScore, Num(0 - 10), Num(40), Num(150)}
EvalRecommendations == {Missing, "include", "exclude", "uncertain"}
ReasoningLengths == {40, 300}
EvalResponses ==
    {Response("dict", s, r, g) :
        s \in EvalScores, r \in EvalRecommendations, g \in ReasoningLengths}
        \cup {ErrorResponse, EmptyResponse}

EvalPir == "p1"
EvalArticle == Article("u1", NewsSource)
FeedUrl == "f1"
FeedEntry == [link |-> "u2", feed_title |-> FilingSource, title |-> Field("title", "u2"), summary |-> Field("summary", "u2")]

\* the variables of the other models that the evaluator model never touches
evalIdle == <<clock, srcVars, phase, mainPlan, collectorPlan, task, sec, filings, laterVars>>

InitEval ==
    /\ sources = {}
    /\ signals = {}
    /\ nextId = 1
    /\ clock = 1
    /\ wpc = [w \in Writers |-> "idle"]
    /\ wcall = [w \in Writers |-> NoCall]
    /\ wfound = [w \in Writers |-> NoId]
    /\ last = NoLast
    /\ hist = {}
    /\ calls = 0
    /\ overlapped = FALSE
    /\ startTbl = {}
    /\ uniqueKey = FALSE
    /\ phase = "evaluator"
    /\ mainPlan \in {Plan(t, MaxCap, MaxBatch, 0) : t \in EvalThresholds}
    /\ collectorPlan = NoPlan
    /\ task = [p \in PirIds |-> IdleTask]
    /\ sec = NoSec
    /\ filings = <<>>
    /\ lastSave = NoSave
    /\ lastEval = NoEval
    /\ rss \in {[client |-> c, context |-> FALSE] : c \in BOOLEAN}
    /\ evals = 0
    /\ LaterIdle

\* evaluate_articles_for_pir([article], pir, context, collection_params)
EvaluateArticle(resp, out) ==
    /\ evals < MaxEvals
    /\ LET threshold == mainPlan.relevance_threshold
           r == EvaluateNextBatch(CurrentDb, <<EvalArticle>>, EvalPir, mainPlan, 0, 0,
                                  <<Case(resp, out)>>, clock)
       IN /\ DbBecomes(r.db)
          /\ lastEval' = [made |-> TRUE, resp |-> resp, threshold |-> threshold,
                          result |-> AiEvaluateSingleArticle(resp, threshold)]
    /\ evals' = evals + 1
    /\ UNCHANGED <<rss, evalIdle>>

\* RSSMonitor.set_strategic_context
SetStrategicContext ==
    /\ ~rss.context
    /\ rss' = [rss EXCEPT !.context = TRUE]
    /\ UNCHANGED <<dbVars, lastSave, lastEval, evals, srcVars, campVars, laterVars>>

\* _ai_evaluate_entries_for_strategic_relevance for one new entry and one
\* PIR: it returns at once without an evaluator (no database client) or
\* without a context; the evaluation is asked with the literal 0.3
RssEvaluateEntry(resp, out) ==
    /\ evals < MaxEvals
    /\ rss.client
    /\ rss.context
    /\ LET ai_result == AiEvaluateSingleArticle(resp, RssThreshold)
           s == SaveRssSignal(CurrentDb, FeedEntry, EvalPir, ai_result, FeedUrl, out,
                              clock, mainPlan.relevance_threshold)
       IN /\ IF ai_result.should_create_signal
             THEN DbBecomes(s.db)
             ELSE UNCHANGED <<sources, signals, nextId, lastSave>>
          /\ lastEval' = [made |-> TRUE, resp |-> resp, threshold |-> RssThreshold,
                          result |-> ai_result]
    /\ evals' = evals + 1
    /\ UNCHANGED <<rss, evalIdle>>

NextEval ==
    \/ \E resp \in EvalResponses, out \in Outcomes : EvaluateArticle(resp, out)
    \/ SetStrategicContext
    \/ \E resp \in EvalResponses, out \in Outcomes : RssEvaluateEntry(resp, out)

SpecEval == InitEval /\ [][NextEval]_vars

(***************************************************************************)
(* The planner model: one strategic analysis, whose answer is any of the   *)
(* responses below, for 1..MaxPirs PIRs; the parameters may be derived     *)
(* again from the strategy the analysis returned.                          *)
(***************************************************************************)
\* the largest number of PIRs handed to the planner
MaxPirs == 12
\* the derivations of collection_params in one behaviour
MaxDerivations == 2

\* the answers of the LLM: a JSON object with every field, or with one field
\* left out, whose three enumerated fields hold a value the prompt names or
\* another one; the empty object; text that is no JSON, an HTTP error, a
\* timeout
PlannerResponses ==
    {StrategyResponse("json", PlannerFields \ lacks, u, i, t) :
        lacks \in {{}} \cup {{f} : f \in PlannerFields},
        u \in Urgencies \cup {Bad}, i \in Intensities \cup {Bad},
        t \in ThresholdTypes \cup {Bad}}
    \cup {StrategyResponse("json", {}, None, None, None)}
    \cup {StrategyResponse(k, {}, None, None, None) : k \in PlannerFailures}

\* the models written first, at rest
EarlierIdle ==
    /\ sources = {}
    /\ signals = {}
    /\ nextId = 1
    /\ clock = 1
    /\ wpc = [w \in Writers |-> "idle"]
    /\ wcall = [w \in Writers |-> NoCall]
    /\ wfound = [w \in Writers |-> NoId]
    /\ last = NoLast
    /\ hist = {}
    /\ calls = 0
    /\ overlapped = FALSE
    /\ startTbl = {}
    /\ uniqueKey = FALSE
    /\ phase = "idle"
    /\ mainPlan = NoPlan
    /\ collectorPlan = NoPlan
    /\ task = [p \in PirIds |-> IdleTask]
    /\ sec = NoSec
    /\ filings = <<>>
    /\ lastSave = NoSave
    /\ lastEval = NoEval
    /\ rss = NoRss
    /\ evals = 0

InitPlanner ==
    /\ EarlierIdle
    /\ plannerResponse \in PlannerResponses
    /\ pirCount \in 1..MaxPirs
    /\ controllerContext = None
    /\ planned = NoPlanned
    /\ paramLog = <<>>
    /\ RunIdle
    /\ BatchIdle
    /\ MoreIdle
    /\ LastIdle

\* analyze_strategic_context_and_generate_collection_strategy(context, pirs)
AnalyzeStrategicContextAndGenerate ==
    /\ planned.status = "none"
    /\ controllerContext' = "context"
    /\ planned' = AnalyzeStrategicContext(plannerResponse, pirCount)
    /\ paramLog' = IF planned'.status = "ok"
                   THEN Append(paramLog, Derivation(plannerResponse, pirCount,
                                                    planned'.collection_params))
                   ELSE paramLog
    /\ UNCHANGED <<plannerResponse, pirCount, runVars, batch, moreVars, lastVars, earlierVars>>

\* _ai_determine_collection_parameters(strategy, pirs), called once more
DetermineAgain ==
    /\ planned.status = "ok"
    /\ Len(paramLog) < MaxDerivations
    /\ paramLog' = Append(paramLog,
                          Derivation(planned.strategy, pirCount,
                                     DetermineCollectionParameters(planned.strategy, pirCount)))
    /\ UNCHANGED <<plannerResponse, pirCount, controllerContext, planned, runVars, batch, moreVars, lastVars,
                   earlierVars>>

NextPlanner ==
    \/ AnalyzeStrategicContextAndGenerate
    \/ DetermineAgain

SpecPlanner == InitPlanner /\ [][NextPlanner]_vars

(***************************************************************************)
(* One run of AISmartCollector.collect_strategic_intelligence, step by     *)
(* step.  The tasks of the PIRs run under asyncio.gather: each collects    *)
(* and then evaluates, and the tasks interleave at their awaits.           *)
(***************************************************************************)
\* how _discover_ai_rss_sources can go: one source validated, three sources
\* validated, none validated, the discovery call fails, the discovery call
\* times out
DiscoveryOutcomes == {"validated", "validated_many", "none_validated", "call_fails", "timeout"}
DiscoveryFailures == {"none_validated", "call_fails", "timeout"}

\* a step that lets its failure pass: the run goes on to `next`
FailureIgnored(ok, next, failure_point) == [stage |-> next, error |-> None]

\* a step whose exception leaves collect_strategic_intelligence
RaiseEscapes(ok, next, failure_point) ==
    IF ok THEN [stage |-> next, error |-> None]
    ELSE [stage |-> "escaped", error |-> None]

\* a step of the try block that raises ValueError unless ok: the stage the
\* run is in afterwards and the 'error' of the result
RaiseUnless(ok, next, failure_point) ==
    IF ok THEN [stage |-> next, error |-> None]
    ELSE [stage |-> "failed", error |-> failure_point]

\* the number of feeds discover_feeds_from_ai_recommendations validates
ValidatedFeeds(outcome) ==
    IF outcome = "validated" THEN 1 ELSE IF outcome = "validated_many" THEN 3 ELSE 0

\* what a step hands on as rss_sources: a list of feeds, or the pair
\* (validated_feeds, failed_feed_names); len is the len() of the object
FeedList(n) == [pair |-> FALSE, len |-> n, feeds |-> n]
FeedsAndNames(n) == [pair |-> TRUE, len |-> 2, feeds |-> n]

\* _discover_ai_rss_sources: it catches every exception and returns [];
\* otherwise it returns what discover_feeds_from_ai_recommendations returned,
\* and sources_discovered is the len() of that
Discovered(outcome) ==
    IF outcome \in {"call_fails", "timeout"} THEN FeedList(0)
    ELSE FeedsAndNames(ValidatedFeeds(outcome))

\* a discovery whose exception reaches collect_strategic_intelligence
DiscoveryRaises(outcome) ==
    [raised |-> outcome \in {"call_fails", "timeout"},
     sources |-> Discovered(outcome).len, rss_sources |-> Discovered(outcome)]

DiscoverAiRssSources(outcome) ==
    [raised |-> FALSE, sources |-> Discovered(outcome).len, rss_sources |-> Discovered(outcome)]

InitRun ==
    /\ EarlierIdle
    /\ PlannerIdle
    /\ BatchIdle
    /\ MoreIdle
    /\ LastIdle
    /\ run = [NoRun EXCEPT !.stage = "init"]
    /\ pirStep = [p \in PirIds |-> PirTask("idle", 0)]

\* Step 1: _load_strategic_context
LoadStrategicContext(found) ==
    /\ run.stage = "init"
    /\ LET r == RaiseUnless(found, "context_loaded", "strategic_context_loading")
       IN run' = [run EXCEPT !.stage = r.stage, !.error = r.error,
                             !.context = IF found THEN "ok" ELSE "missing"]
    /\ UNCHANGED <<pirStep, planVars, batch, moreVars, lastVars, earlierVars>>

\* Step 2: _load_pir_indicators
LoadPirs(found) ==
    /\ run.stage = "context_loaded"
    /\ LET r == RaiseUnless(found, "pirs_loaded", "pir_indicator_loading")
       IN run' = [run EXCEPT !.stage = r.stage, !.error = r.error,
                             !.pirs = IF found THEN "ok" ELSE "none"]
    /\ UNCHANGED <<pirStep, planVars, batch, moreVars, lastVars, earlierVars>>

\* Step 3: analyze_strategic_context_and_generate_collection_strategy
GenerateStrategy(ok) ==
    /\ run.stage = "pirs_loaded"
    /\ LET r == RaiseUnless(ok, "plan_ready", "ai_strategic_analysis")
       IN run' = [run EXCEPT !.stage = r.stage, !.error = r.error,
                             !.plan = IF ok THEN "ok" ELSE "fails"]
    /\ UNCHANGED <<pirStep, planVars, batch, moreVars, lastVars, earlierVars>>

\* Step 4: _discover_ai_rss_sources
DiscoverSources(outcome) ==
    /\ run.stage = "plan_ready"
    /\ LET d == DiscoverAiRssSources(outcome)
           r == RaiseUnless(~d.raised, "sources_ready", "rss_source_discovery")
       IN run' = [run EXCEPT !.stage = r.stage, !.error = r.error,
                             !.discovery = outcome, !.sources = d.sources,
                             !.rss_sources = d.rss_sources,
                             !.validated = ValidatedFeeds(outcome),
                             !.discoveries = @ + 1]
    /\ UNCHANGED <<pirStep, planVars, batch, moreVars, lastVars, earlierVars>>

\* Step 5, the task of PIR p up to its evaluation: _collect_from_rss_sources
\* and _collect_from_api_sources, which queries the search backend with the
\* queries generated for the PIR and returns n articles
CollectForStrategicPir(p, n) ==
    /\ run.stage = "sources_ready"
    /\ pirStep[p].pc = "idle"
    /\ pirStep' = [pirStep EXCEPT ![p] = PirTask(IF n = 0 THEN "empty" ELSE "collected", n)]
    /\ run' = [run EXCEPT !.fetches = @ + 1]
    /\ UNCHANGED <<planVars, batch, moreVars, lastVars, earlierVars>>

\* Step 5, the rest of the task of PIR p: evaluate_articles_for_pir, which
\* issues an evaluation for `issued` of the articles (all of them unless the
\* cap ends the loop over the batches) and writes `created` signals
EvaluateForStrategicPir(p, issued, created, failed) ==
    /\ run.stage = "sources_ready"
    /\ pirStep[p].pc = "collected"
    /\ issued <= pirStep[p].articles
    /\ created + failed <= issued
    /\ issued < pirStep[p].articles => created > 0
    /\ pirStep' = [pirStep EXCEPT ![p].pc = "evaluated"]
    /\ LET total == run.total_evaluations + pirStep[p].articles
       IN run' = [run EXCEPT !.evaluations = @ + 1, !.writes = @ + created,
                             !.issued = @ + issued,
                             !.failed = @ + failed, !.total_evaluations = total,
                             !.ai_evaluation_calls = @ + total]
    /\ UNCHANGED <<planVars, batch, moreVars, lastVars, earlierVars>>

\* total_articles_collected: the sum of articles_collected over the tasks
RECURSIVE ArticlesCollected(_)
ArticlesCollected(pirs) ==
    IF pirs = {} THEN 0
    ELSE LET p == CHOOSE q \in pirs : TRUE
         IN pirStep[p].articles + ArticlesCollected(pirs \ {p})

\* Steps 5 to 7 once gather has returned: results aggregated, cross-PIR
\* analysis, final results assembled and returned
AssembleFinalResults ==
    /\ run.stage = "sources_ready"
    /\ \A p \in PirIds : pirStep[p].pc \in {"empty", "evaluated"}
    /\ run' = [run EXCEPT !.stage = "summarized",
                          !.summary = CollectionStats(ArticlesCollected(PirIds), run.writes,
                                                      run.ai_evaluation_calls, run.sources)]
    /\ UNCHANGED <<pirStep, planVars, batch, moreVars, lastVars, earlierVars>>

\* the wall clock passes collection_timeout seconds after the start of the
\* run, which is known once the plan is ready: the parameter is computed and
\* logged, and no step reads it
DeadlinePasses ==
    /\ run.stage \in {"plan_ready", "sources_ready"}
    /\ ~run.expired
    /\ run' = [run EXCEPT !.expired = TRUE]
    /\ UNCHANGED <<pirStep, planVars, batch, moreVars, lastVars, earlierVars>>

\* the steps of the run: each is an await of the coroutine, resumed by the
\* event loop once its external calls have returned, failed or timed out
RunSteps ==
    \/ \E found \in BOOLEAN : LoadStrategicContext(found)
    \/ \E found \in BOOLEAN : LoadPirs(found)
    \/ \E ok \in BOOLEAN : GenerateStrategy(ok)
    \/ \E outcome \in DiscoveryOutcomes : DiscoverSources(outcome)
    \/ \E p \in PirIds, n \in 0..MaxArticles : CollectForStrategicPir(p, n)
    \/ \E p \in PirIds, issued \in 0..MaxArticles, created \in 0..MaxArticles,
          failed \in 0..MaxArticles :
           EvaluateForStrategicPir(p, issued, created, failed)
    \/ AssembleFinalResults

NextRun ==
    \/ RunSteps
    \/ DeadlinePasses

SpecRun == InitRun /\ [][NextRun]_vars

\* the run under an event loop that resumes every step whose calls are over
SpecRunLive == InitRun /\ [][NextRun]_vars /\ WF_vars(RunSteps)

(***************************************************************************)
(* One batch of the evaluator: two articles for one PIR, each LLM call     *)
(* answering, or failing with an exception, an HTTP error or a timeout.    *)
(***************************************************************************)
BatchArticles == <<Article("u1", NewsSource), Article("u2", NewsSource)>>

\* what one evaluation call of the batch gives, and the fate of its save
\* (a second answer that qualifies tells the results of two articles apart)
BatchResponses == CampaignResponses \cup {Response("dict", Num(80), "include", 20), ErrorResponse}
BatchCases == {Case(r, o) : r \in BatchResponses, o \in Outcomes}

InitBatch ==
    /\ EarlierIdle
    /\ PlannerIdle
    /\ RunIdle
    /\ MoreIdle
    /\ LastIdle
    /\ batch = NoBatch

\* _evaluate_article_batch(articles, pir, context, threshold, max_signals)
EvaluateBatch(cases, max_signals) ==
    /\ ~batch.made
    /\ LET r == EvaluateArticleBatch(CurrentDb, BatchArticles, EvalPir, DefaultThreshold,
                                     max_signals, cases, clock)
       IN /\ DbBecomes(r.db)
          /\ batch' = [made |-> TRUE, cases |-> cases, max_signals |-> max_signals,
                       signals_created |-> r.signals_created]
    /\ UNCHANGED <<clock, srcVars, campVars, lastEval, rss, evals, planVars, runVars, moreVars, lastVars>>

NextBatch ==
    \E cases \in [1..Len(BatchArticles) -> BatchCases], max_signals \in 1..MaxCap :
        EvaluateBatch(cases, max_signals)

SpecBatch == InitBatch /\ [][NextBatch]_vars

(***************************************************************************)
(* The validators of the discovery layer.  A body is a sequence of pieces  *)
(* of text, each with the case it is written in and its length in bytes;   *)
(* a validator reads the first bytes of the body, lowers them and looks    *)
(* for its indicators anywhere in what it has read.                        *)
(***************************************************************************)
\* a piece of a body: its text, the same text through str.lower(), its bytes
Piece(text, lower, bytes) == [text |-> text, lower |-> lower, bytes |-> bytes]

Pieces ==
    { Piece("<rss", "<rss", 4), Piece("<RSS", "<rss", 4), Piece("<feed", "<feed", 5),
      Piece("<Channel>", "<channel>", 9), Piece("<item>", "<item>", 6),
      Piece("<entry>", "<entry>", 7),
      Piece("application/rss+xml", "application/rss+xml", 19),
      Piece("application/atom+xml", "application/atom+xml", 20),
      Piece("<html>", "<html>", 6), Piece("<HTML>", "<html>", 6),
      Piece("<p>text</p>", "<p>text</p>", 600) }

\* the longest body the model hands to a validator, in pieces
MaxPieces == 3

Bodies == SeqUpTo(Pieces, MaxPieces)

\* what the GET of a validator can come to
Responses ==
    {[kind |-> "response", status |-> st, body |-> b] : st \in {200, 404, 500}, b \in Bodies}
        \cup {[kind |-> k, status |-> 0, body |-> <<>>] : k \in {"timeout", "error"}}

\* the bytes read by _validate_single_rss_url, _test_single_endpoint and
\* _quick_validate_url
DirectChunk == 2048
EndpointChunk == 1024
QuickChunk == 512

RECURSIVE Bytes(_)
Bytes(body) == IF body = <<>> THEN 0 ELSE Head(body).bytes + Bytes(Tail(body))

\* response.content.read(n).decode().lower(): the pieces that lie whole
\* within the first n bytes, lowered
RECURSIVE ReadLower(_, _)
ReadLower(body, n) ==
    IF body = <<>> \/ Head(body).bytes > n THEN <<>>
    ELSE <<Head(body).lower>> \o ReadLower(Tail(body), n - Head(body).bytes)

\* any(indicator in content_str for indicator in indicators)
AnyIndicatorIn(content_str, indicators) ==
    \E k \in 1..Len(content_str) : content_str[k] \in indicators

DirectIndicators ==
    {"<rss", "<feed", "<channel>", "<item>", "<entry>", "application/rss+xml",
     "application/atom+xml"}
EndpointIndicators == {"<rss", "<feed", "<channel>", "<item>", "<entry>"}
QuickIndicators == {"<rss", "<feed", "<channel>"}

\* the test the three validators share: 'valid' of the result
ValidFeedResponse(response, chunk, indicators) ==
    /\ response.kind = "response"
    /\ response.status = 200
    /\ AnyIndicatorIn(ReadLower(response.body, chunk), indicators)

ValidateSingleRssUrl(response) == ValidFeedResponse(response, DirectChunk, DirectIndicators)
TestSingleEndpoint(response) == ValidFeedResponse(response, EndpointChunk, EndpointIndicators)
QuickValidateUrl(response) == ValidFeedResponse(response, QuickChunk, QuickIndicators)

Validators == {"direct", "endpoint", "quick"}

Verdict(validator, response) ==
    CASE validator = "direct" -> ValidateSingleRssUrl(response)
      [] validator = "endpoint" -> TestSingleEndpoint(response)
      [] validator = "quick" -> QuickValidateUrl(response)

InitValidator == EarlierIdle /\ LaterIdle

\* one validator is handed one response
Validate(validator, response) ==
    /\ ~validation.made
    /\ validation' = [made |-> TRUE, validator |-> validator, kind |-> response.kind,
                      status |-> response.status, body |-> response.body,
                      valid |-> Verdict(validator, response)]
    /\ UNCHANGED <<feeds, monitor, collection, parsed, planVars, runVars, batch, lastVars, earlierVars>>

NextValidator ==
    \E validator \in Validators, response \in Responses : Validate(validator, response)

SpecValidator == InitValidator /\ [][NextValidator]_vars

(***************************************************************************)
(* The entry store of the feed monitor for one feed.  Titles and links     *)
(* are sequences of characters; the hash of an entry is taken from the     *)
(* title followed at once by the link, and MD5 is taken to map different   *)
(* texts to different hashes.                                              *)
(***************************************************************************)
FeedTitles == {<<"a">>, <<"a", "b">>}
FeedLinks == {<<"c">>, <<"b", "c">>}

\* an entry as the feed lists it; time 0 is before the cutoff of a fetch
FeedItem(title, link, time) == [title |-> title, link |-> link, time |-> time]
FeedItems == {FeedItem(t, l, time) : t \in FeedTitles, l \in FeedLinks, time \in 0..1}

\* the longest listing a fetch returns, and the calls made to the monitor
MaxListing == 2
MaxMonitorCalls == 3

Listings == SeqUpTo(FeedItems, MaxListing)

\* the entries kept per feed (500 in the code)
StoredLimit == 2

\* now - days_back, on the scale of the entries' times
FetchCutoff == 1

\* _process_feed_entry: the fields the store uses
ProcessFeedEntry(entry) ==
    [title |-> entry.title, link |-> entry.link, hash |-> entry.title \o entry.link,
     parsed_time |-> entry.time]

HashesOf(entries) == {entries[k].hash : k \in 1..Len(entries)}

\* the entry loop of _fetch_feed_entries_with_ai_evaluation: _is_new_entry
\* adds the hash of every entry it has not seen, and the entry is taken
\* when it is not older than the cutoff
RECURSIVE TakeNewEntries(_, _, _)
TakeNewEntries(listing, entry_hashes, new_entries) ==
    IF listing = <<>>
    THEN [entry_hashes |-> entry_hashes, new_entries |-> new_entries]
    ELSE LET e == ProcessFeedEntry(Head(listing))
         IN IF e.hash \in entry_hashes
            THEN TakeNewEntries(Tail(listing), entry_hashes, new_entries)
            ELSE TakeNewEntries(Tail(listing), entry_hashes \cup {e.hash},
                                IF e.parsed_time >= FetchCutoff
                                THEN Append(new_entries, e) ELSE new_entries)

\* _fetch_feed_entries_with_ai_evaluation for a listing fetched with status
\* 200: new entries stored, then the store cut to its last StoredLimit
\* entries and the hashes of the entries cut removed
FetchFeedEntries(m, listing) ==
    LET t == TakeNewEntries(listing, m.entry_hashes, <<>>)
        stored == m.feed_entries \o t.new_entries
        over == Len(stored) - StoredLimit
        oldest == IF over > 0 THEN SubSeq(stored, 1, over) ELSE <<>>
    IN [m EXCEPT !.entry_hashes = t.entry_hashes \ HashesOf(oldest),
                 !.feed_entries = IF over > 0 THEN SubSeq(stored, over + 1, Len(stored))
                                  ELSE stored,
                 !.accepted = @ \o t.new_entries]

InitMonitor == EarlierIdle /\ LaterIdle

monitorIdle == <<validation, feeds, collection, parsed, planVars, runVars, batch, lastVars, earlierVars>>

\* subscribe_feed: the store of the feed is set up empty, then the first fetch
SubscribeFeed(listing) ==
    /\ monitor.calls < MaxMonitorCalls
    /\ monitor' = FetchFeedEntries([monitor EXCEPT !.subscribed = TRUE, !.feed_entries = <<>>,
                                                   !.calls = @ + 1], listing)
    /\ UNCHANGED monitorIdle

\* update_all_feeds: one more fetch of the subscribed feed
UpdateFeed(listing) ==
    /\ monitor.calls < MaxMonitorCalls
    /\ monitor.subscribed
    /\ monitor' = FetchFeedEntries([monitor EXCEPT !.calls = @ + 1], listing)
    /\ UNCHANGED monitorIdle

\* unsubscribe_feed
UnsubscribeFeed ==
    /\ monitor.calls < MaxMonitorCalls
    /\ monitor.subscribed
    /\ monitor' = [monitor EXCEPT !.subscribed = FALSE, !.calls = @ + 1,
                                  !.entry_hashes = @ \ HashesOf(monitor.feed_entries),
                                  !.feed_entries = <<>>]
    /\ UNCHANGED monitorIdle

\* old_entries and new_entries of cleanup_old_entries
OldEntries(entries, cutoff_date) ==
    LET IsOld(e) == e.parsed_time < cutoff_date IN SelectSeq(entries, IsOld)
NewEntries(entries, cutoff_date) ==
    LET IsNew(e) == e.parsed_time >= cutoff_date IN SelectSeq(entries, IsNew)

\* cleanup_old_entries(cutoff_date)
CleanupOldEntries(cutoff_date) ==
    /\ monitor.calls < MaxMonitorCalls
    /\ monitor' = [monitor EXCEPT !.calls = @ + 1,
                                  !.entry_hashes = @ \ HashesOf(OldEntries(monitor.feed_entries, cutoff_date)),
                                  !.feed_entries = NewEntries(monitor.feed_entries, cutoff_date)]
    /\ UNCHANGED monitorIdle

NextMonitor ==
    \/ \E listing \in Listings : SubscribeFeed(listing)
    \/ \E listing \in Listings : UpdateFeed(listing)
    \/ UnsubscribeFeed
    \/ \E cutoff_date \in 1..2 : CleanupOldEntries(cutoff_date)

SpecMonitor == InitMonitor /\ [][NextMonitor]_vars

(***************************************************************************)
(* The collection for one PIR up to its evaluation: the LLM is asked for   *)
(* search queries, the search backend is queried with the first of them,   *)
(* and the results are merged into the list the evaluator is given.  The   *)
(* indicator text is held as its length; the backend returns at most the   *)
(* pageSize it is asked for.                                               *)
(***************************************************************************)
\* [:100] of the fallback query, pageSize <= 100 and search_queries[:3]
QueryChars == 100
MaxPageSize == 100
QueriesUsed == 3

\* a query the LLM wrote, and the query made from the indicator text
AiQuery(k) == [kind |-> "ai", chars |-> k]
TextQuery(text) == [kind |-> "indicator_text", chars |-> Min(text, QueryChars)]

\* the most queries an answer of the LLM lists
MaxQueries == 4

\* how the query generation call can end: a list of n queries, 'queries'
\* null, a JSON object without 'queries', no JSON, an HTTP error, a timeout
QueryAnswer(kind, n) == [kind |-> kind, n |-> n]
QueryFailures == {"null_queries", "no_queries_key", "not_json", "http_error", "timeout"}
QueryAnswers ==
    {QueryAnswer("queries", n) : n \in 0..MaxQueries}
        \cup {QueryAnswer(kind, 0) : kind \in QueryFailures}

\* AIEvaluator.generate_ai_search_queries
GenerateAiSearchQueries(text, answer) ==
    IF answer.kind = "queries" THEN [k \in 1..answer.n |-> AiQuery(k)]
    ELSE <<TextQuery(text)>>

\* the articles the search backend can return, one of them without a URL
SearchArticles == NewsArticles \cup {Article("", NewsSource)}

\* pageSize of _search_newsapi
PageSize(max_results) == Min(max_results, MaxPageSize)

RECURSIVE Flatten(_)
Flatten(lists) == IF lists = <<>> THEN <<>> ELSE Head(lists) \o Flatten(Tail(lists))

\* _collect_from_api_sources: `results` are the answers of the backend to
\* the queries searched, in order
CollectFromApiSources(text, answer, max_articles, results) ==
    LET search_queries == GenerateAiSearchQueries(text, answer)
        searched == Take(search_queries, QueriesUsed)
    IN [queries |-> search_queries,
        searched |-> IF search_queries = <<>> THEN <<>> ELSE searched,
        abandoned |-> search_queries = <<>>,
        articles |-> IF search_queries = <<>> THEN <<>>
                     ELSE Take(DeduplicateArticles(Flatten(results)), max_articles)]

\* max_results of the searches of one _collect_from_api_sources call
MaxResults(text, answer, max_articles) ==
    LET n == Len(GenerateAiSearchQueries(text, answer))
    IN IF n = 0 THEN 0 ELSE max_articles \div n

\* max_articles_per_pir and the lengths of the indicator text in the model
CollectBudgets == {6, 8}
IndicatorTexts == {40, 150}

InitCollect == EarlierIdle /\ LaterIdle

\* _collect_for_strategic_pir up to the call of the evaluator: the feed
\* sources give no article, the search backend gets half of the budget
CollectArticlesForPir(text, answer, max_articles_per_pir, results) ==
    /\ ~collection.made
    /\ LET api == CollectFromApiSources(text, answer, max_articles_per_pir \div 2, results)
           rss_articles == <<>>
       IN /\ Len(results) = Len(api.searched)
          /\ \A k \in 1..Len(results) :
                 Len(results[k]) <= PageSize(MaxResults(text, answer, max_articles_per_pir \div 2))
          /\ collection' = [made |-> TRUE, text |-> text, answer |-> answer,
                            max_articles |-> max_articles_per_pir, queries |-> api.queries,
                            searched |-> api.searched, results |-> results,
                            all_articles |-> rss_articles \o api.articles,
                            abandoned |-> api.abandoned]
    /\ UNCHANGED <<validation, feeds, monitor, parsed, planVars, runVars, batch, lastVars, earlierVars>>

\* what the backend can answer to the searches of one call: a list of at
\* most pageSize articles for each query searched
SearchResults(text, answer, max_articles) ==
    LET searched == Take(GenerateAiSearchQueries(text, answer), QueriesUsed)
    IN [1..Len(searched) ->
            SeqUpTo(SearchArticles, PageSize(MaxResults(text, answer, max_articles)))]

NextCollect ==
    \E text \in IndicatorTexts, answer \in QueryAnswers, budget \in CollectBudgets :
        \E results \in SearchResults(text, answer, budget \div 2) :
            CollectArticlesForPir(text, answer, budget, results)

SpecCollect == InitCollect /\ [][NextCollect]_vars

(***************************************************************************)
(* The feed discovery of sources/ai_rss_discovery.py.  A string is the     *)
(* sequence of its parts, a URL is <<netloc, path>>, and `web` is the set  *)
(* of URLs that answer 200 with a feed body.                                *)
(***************************************************************************)

NoUrl == <<>>
NoDomain == ""
\* the URLs recommended, and the URLs a domain may serve
FeedUrls == {<<"d1", "/rss">>, <<"d1", "/custom">>}
WebUrls == FeedUrls \cup {<<"d2", "/rss">>, <<"d2", "/feed">>}

\* the endpoints swept on a domain, all of them in the first batch
WorkingEndpoints == <<"/rss", "/feed">>

\* names of candidates: the first is contained in the second
CandidateNames == {<<"n1">>, <<"n1", "x">>}
Candidates ==
    [name : CandidateNames, rss_url : FeedUrls \cup {NoUrl},
     domain : {"d2", NoDomain}]
MaxCandidates == 3

\* urlparse(url).netloc
Netloc(url) == IF url = NoUrl THEN NoDomain ELSE url[1]

\* `a in b` of two strings
IsInfix(a, b) == \E i \in 0..(Len(b) - Len(a)) : SubSeq(b, i + 1, i + Len(a)) = a

\* str(feed): the text of every value of the feed record
Str(feed) == feed.url \o feed.title \o <<feed.domain, feed.discovery_method>>

\* _validate_single_rss_url, for a URL that answers as a feed
DirectFeed(source) ==
    [url |-> source.rss_url, title |-> source.name,
     domain |-> IF source.domain = NoDomain THEN Netloc(source.rss_url) ELSE source.domain,
     discovery_method |-> "ai_direct_url"]

\* _test_direct_rss_urls: every candidate with a URL is tested, in order
RECURSIVE TestDirectRssUrls(_, _)
TestDirectRssUrls(ai_sources, answering) ==
    IF ai_sources = <<>> THEN <<>>
    ELSE LET source == Head(ai_sources)
             rest == TestDirectRssUrls(Tail(ai_sources), answering)
         IN IF source.rss_url # NoUrl /\ source.rss_url \in answering
            THEN <<DirectFeed(source)>> \o rest ELSE rest

\* the names captured after the direct test
RECURSIVE FailedFeedNames(_, _)
FailedFeedNames(ai_sources, direct_url_feeds) ==
    IF ai_sources = <<>> THEN <<>>
    ELSE LET source_name == Head(ai_sources).name
             rest == FailedFeedNames(Tail(ai_sources), direct_url_feeds)
         IN IF \E k \in 1..Len(direct_url_feeds) : IsInfix(source_name, Str(direct_url_feeds[k]))
            THEN rest ELSE <<source_name>> \o rest

\* the domain _extract_domains_for_testing takes from one candidate
DomainOf(source) == IF source.domain # NoDomain THEN source.domain ELSE Netloc(source.rss_url)

\* _extract_domains_for_testing
RECURSIVE ExtractDomains(_, _, _)
ExtractDomains(ai_sources, validated_urls, domains) ==
    IF ai_sources = <<>> THEN domains
    ELSE LET source == Head(ai_sources)
             domain == DomainOf(source)
             seen == {domains[k] : k \in 1..Len(domains)}
         IN ExtractDomains(Tail(ai_sources), validated_urls,
                IF source.rss_url \in validated_urls \/ domain = NoDomain \/ domain \in seen
                THEN domains ELSE Append(domains, domain))

ExtractDomainsForTesting(ai_sources, validated_feeds) ==
    ExtractDomains(ai_sources, {validated_feeds[k].url : k \in 1..Len(validated_feeds)}, <<>>)

\* _test_domain_endpoints: the first endpoint of the batch that answers
TestDomainEndpoints(domain, answering) ==
    LET works == {k \in 1..Len(WorkingEndpoints) : <<domain, WorkingEndpoints[k]>> \in answering}
    IN IF works = {} THEN <<>>
       ELSE LET first == CHOOSE k \in works : \A j \in works : k <= j
            IN <<[url |-> <<domain, WorkingEndpoints[first]>>,
                  title |-> <<domain, " RSS Feed">>, domain |-> domain,
                  discovery_method |-> "fast_endpoint_test"]>>

\* _fast_domain_endpoint_testing
RECURSIVE FastDomainEndpointTesting(_, _)
FastDomainEndpointTesting(domains, answering) ==
    IF domains = <<>> THEN <<>>
    ELSE TestDomainEndpoints(Head(domains), answering)
             \o FastDomainEndpointTesting(Tail(domains), answering)

\* the sweep runs when fewer than half of the candidates were validated
NeedsEndpointTesting(validated_feeds, ai_sources) ==
    2 * Len(validated_feeds) < Len(ai_sources)

\* an element of the list handed over: one candidate, or a list of them
OneSource(source) == [nested |-> FALSE, items |-> <<source>>]
SourceList(list) == [nested |-> TRUE, items |-> list]

\* the shapes of the list handed over: the candidates themselves, the
\* candidates inside one list, and the pair (candidates, failed names) that
\* ai_discover_optimal_rss_sources returns
Shapes == {"flat", "nested", "pair"}
Given(candidates, shape) ==
    IF shape = "flat" THEN [k \in 1..Len(candidates) |-> OneSource(candidates[k])]
    ELSE IF shape = "nested" THEN <<SourceList(candidates)>>
    ELSE <<SourceList(candidates), SourceList(<<>>)>>

\* flattened_sources: lists are extended, other elements appended
RECURSIVE FlattenSources(_)
FlattenSources(given) ==
    IF given = <<>> THEN <<>> ELSE Head(given).items \o FlattenSources(Tail(given))

\* discover_feeds_from_ai_recommendations: the tuple returned, and whether
\* the branch of the endpoint sweep was taken
DiscoverFeeds(given, answering) ==
    LET ai_sources == FlattenSources(given)
        direct_url_feeds == TestDirectRssUrls(ai_sources, answering)
        failed == FailedFeedNames(ai_sources, direct_url_feeds)
        sweeps == NeedsEndpointTesting(direct_url_feeds, given)
        domain_feeds ==
            IF sweeps
            THEN FastDomainEndpointTesting(
                     ExtractDomainsForTesting(ai_sources, direct_url_feeds), answering)
            ELSE <<>>
    IN [validated_feeds |-> direct_url_feeds \o domain_feeds, failed_feed_names |-> failed,
        sweeps |-> sweeps]

InitDiscovery == EarlierIdle /\ LaterIdle

\* `feeds` keeps the list handed over and, flattened, its candidates
DiscoverFeedsFromAiRecommendations(given, answering) ==
    /\ ~feeds.made
    /\ LET found == DiscoverFeeds(given, answering)
       IN feeds' = [made |-> TRUE, given |-> given, ai_sources |-> FlattenSources(given),
                    web |-> answering, sweeps |-> found.sweeps,
                    validated_feeds |-> found.validated_feeds,
                    failed_feed_names |-> found.failed_feed_names]
    /\ UNCHANGED <<validation, monitor, collection, parsed, planVars, runVars, batch, lastVars, earlierVars>>

NextDiscovery ==
    /\ ~feeds.made
    /\ \E candidates \in SeqUpTo(Candidates, MaxCandidates), shape \in Shapes,
          answering \in SUBSET WebUrls :
           DiscoverFeedsFromAiRecommendations(Given(candidates, shape), answering)

SpecDiscovery == InitDiscovery /\ [][NextDiscovery]_vars

(***************************************************************************)
(* The feed parser of sources/external/sec_edgar_monitor.py.  Time is      *)
(* counted in days; an Atom entry is described by what entry.find gives    *)
(* for its title, link and updated elements and by the text of `updated`.  *)
(***************************************************************************)

\* entry.find: no element, an element without children, one with children
ElementKinds == {"absent", "leaf", "nested"}

\* bool(element) of xml.etree.ElementTree: an element is true when it has
\* children; None is false
Truthy(element) == element = "nested"

\* datetime.now(timezone.utc) and days_back of the call
Today == 3
DaysBack == 1
CutoffDate == Today - DaysBack

\* the text of <updated>: a timestamp with an offset, one without, or a
\* text datetime.fromisoformat rejects
NoStamp == [kind |-> "none", day |-> 0]
Stamps ==
    [kind : {"aware"}, day : {CutoffDate - 1, CutoffDate, Today}]
        \cup {[kind |-> "naive", day |-> Today], [kind |-> "unparseable", day |-> 0]}

AtomEntries ==
    [title : ElementKinds, link : ElementKinds, updated : {"leaf", "nested"}, stamp : Stamps]
        \cup [title : ElementKinds, link : ElementKinds, updated : {"absent"}, stamp : {NoStamp}]
MaxEntries == 2

\* the body of the loop for one entry: the filing appended, if any
ParseEntry(entry) ==
    IF ~(Truthy(entry.title) /\ Truthy(entry.link) /\ Truthy(entry.updated)) THEN <<>>
    ELSE IF entry.stamp.kind = "unparseable" THEN <<>>   \* ValueError
    ELSE IF entry.stamp.kind = "naive" THEN <<>>         \* TypeError of the comparison
    ELSE IF entry.stamp.day < CutoffDate THEN <<>>
    ELSE <<[title |-> entry.title, document_url |-> entry.link,
            filing_date |-> entry.stamp.day]>>

\* _parse_sec_rss_feed on a feed that parses as XML
RECURSIVE ParseSecRssFeed(_)
ParseSecRssFeed(entries) ==
    IF entries = <<>> THEN <<>>
    ELSE ParseEntry(Head(entries)) \o ParseSecRssFeed(Tail(entries))

InitSecFeed == EarlierIdle /\ LaterIdle

ParseFeed(entries) ==
    /\ ~parsed.made
    /\ parsed' = [made |-> TRUE, entries |-> entries, filings |-> ParseSecRssFeed(entries)]
    /\ UNCHANGED <<validation, feeds, monitor, collection, planVars, runVars, batch, lastVars, earlierVars>>

NextSecFeed ==
    /\ ~parsed.made
    /\ \E entries \in SeqUpTo(AtomEntries, MaxEntries) : ParseFeed(entries)

SpecSecFeed == InitSecFeed /\ [][NextSecFeed]_vars

(***************************************************************************)
(* The publish time of a signal: lines 339-350 of _save_ai_signal.  The    *)
(* text of article['published_date'] is described by the parts of a        *)
(* timestamp it spells out; dateutil's parser.parse takes every part the   *)
(* text leaves out from its default, today at midnight.                    *)
(***************************************************************************)
NotGiven == "none"
FromDefault == "default"

\* article.get('published_date') is None, '' or missing
AbsentDate ==
    [kind |-> "absent", year |-> NotGiven, month |-> NotGiven, day |-> NotGiven,
     time |-> NotGiven, offset |-> NotGiven]

\* a text: the parts it gives; an offset comes with a time only
DateTexts ==
    {t \in [kind : {"text"}, year : {NotGiven, "y"}, month : {NotGiven, "m"},
            day : {NotGiven, "d"}, time : {NotGiven, "t"}, offset : {NotGiven, "Z", "+02:00"}] :
        t.time = NotGiven => t.offset = NotGiven}

\* a text whose number is too large for a date, and a value that is no text
OtherDates ==
    {[kind |-> k, year |-> NotGiven, month |-> NotGiven, day |-> NotGiven,
      time |-> NotGiven, offset |-> NotGiven] : k \in {"overflow", "number"}}

PublishedValues == {AbsentDate} \cup DateTexts \cup OtherDates

NullDate ==
    [kind |-> "null", year |-> NotGiven, month |-> NotGiven, day |-> NotGiven,
     time |-> NotGiven, offset |-> NotGiven]

\* parser.parse raises: the text names no part of a date or time
ParserRaises(text) ==
    \/ text.kind = "overflow"
    \/ /\ text.year = NotGiven /\ text.month = NotGiven /\ text.day = NotGiven
       /\ text.time = NotGiven

Part(given) == IF given = NotGiven THEN FromDefault ELSE given

\* parser.parse(text).isoformat()
ParserParse(text) ==
    [kind |-> "timestamp", year |-> Part(text.year), month |-> Part(text.month),
     day |-> Part(text.day), time |-> Part(text.time), offset |-> text.offset]

\* published_date of signal_data
PublishedDate(published) ==
    IF published.kind = "absent" THEN NullDate
    ELSE IF published.kind = "number" THEN published
    ELSE IF ParserRaises(published) THEN NullDate
    ELSE ParserParse(published)

InitPublish == EarlierIdle /\ LaterIdle

\* _save_ai_signal for an article with the given published_date, whose
\* database requests go as `out`
SaveWithPublishedDate(published, out) ==
    /\ ~publish.made
    /\ publish' = [made |-> TRUE, published |-> published, out |-> out,
                   wrote |-> out = "ok",
                   published_date |-> IF out = "source_fails" THEN NullDate
                                      ELSE PublishedDate(published)]
    /\ UNCHANGED <<flight, sweep, subs, planVars, runVars, batch, moreVars, earlierVars>>

NextPublish ==
    /\ ~publish.made
    /\ \E published \in PublishedValues, out \in Outcomes : SaveWithPublishedDate(published, out)

SpecPublish == InitPublish /\ [][NextPublish]_vars

(***************************************************************************)
(* The evaluations of one PIR, call by call: the batch loop of             *)
(* evaluate_articles_for_pir, the calls that asyncio.gather runs at the    *)
(* same time in _evaluate_article_batch, and the saves of its result loop. *)
(***************************************************************************)
\* what one evaluation call returns to the result loop
FlightResults == {"create", "skip", "failed"}

InitFlight == EarlierIdle /\ LaterIdle

flightIdle == <<publish, sweep, subs, planVars, runVars, batch, moreVars, earlierVars>>

\* evaluate_articles_for_pir is called with n articles
StartEvaluation(n, params) ==
    /\ flight.pc = "idle"
    /\ flight' = [flight EXCEPT !.pc = IF params.ai_evaluation_batch_size = 0 THEN "done"
                                       ELSE "loop",
                                !.articles = [k \in 1..n |-> k], !.params = params]
    /\ UNCHANGED flightIdle

\* the head of the batch loop: the loop ends, or the calls of the next batch
\* are gathered and start together
BeginBatch ==
    /\ flight.pc = "loop"
    /\ IF flight.i >= Len(flight.articles)
          \/ flight.signals_created >= flight.params.max_signals_per_pir
       THEN flight' = [flight EXCEPT !.pc = "done"]
       ELSE LET articles == BatchAt(flight.articles, flight.params, flight.i)
                members == {articles[k] : k \in 1..Len(articles)}
            IN flight' = [flight EXCEPT
                   !.pc = "gathering", !.current = articles, !.begun = @ + 1,
                   !.status = [a \in FlightIds |-> IF a \in members THEN "running" ELSE @[a]],
                   !.started_in = [a \in FlightIds |->
                                       IF a \in members THEN flight.begun + 1 ELSE @[a]],
                   !.k = 1, !.batch_created = 0]
    /\ UNCHANGED flightIdle

\* one call in flight returns
CompleteEvaluation(a, result) ==
    /\ flight.pc = "gathering"
    /\ flight.status[a] = "running"
    /\ flight' = [flight EXCEPT !.status[a] = result]
    /\ UNCHANGED flightIdle

\* gather has returned; one turn of the result loop, whose save goes as
\* `saved`; after the last turn the batch returns and the counters move on
ProcessResult(saved) ==
    /\ flight.pc = "gathering"
    /\ \A a \in FlightIds : flight.status[a] # "running"
    /\ LET left == flight.params.max_signals_per_pir - flight.signals_created
           over == flight.k > Len(flight.current) \/ flight.batch_created >= left
       IN IF over
          THEN flight' = [flight EXCEPT
                   !.pc = "loop", !.finished = @ + 1,
                   !.signals_created = @ + flight.batch_created,
                   !.i = @ + flight.params.ai_evaluation_batch_size]
          ELSE LET a == flight.current[flight.k]
                   saves == flight.status[a] = "create"
               IN flight' = [flight EXCEPT
                      !.k = @ + 1,
                      !.batch_created = IF saves /\ saved THEN @ + 1 ELSE @,
                      !.written = IF saves /\ saved THEN @ \cup {a} ELSE @]
    /\ UNCHANGED flightIdle

NextFlight ==
    \/ \E n \in 1..MaxFlight, params \in Plans \cup {Plan(DefaultThreshold, 1, 0, 2 * MaxArticles)} :
           StartEvaluation(n, params)
    \/ BeginBatch
    \/ \E a \in FlightIds, result \in FlightResults : CompleteEvaluation(a, result)
    \/ \E saved \in BOOLEAN : ProcessResult(saved)

SpecFlight == InitFlight /\ [][NextFlight]_vars

-----------------------------------------------------------------------------
\* The endpoint sweep of the discovery, probe by probe
\* (AIRSSDiscovery._fast_domain_endpoint_testing, _test_domain_endpoints).
\* `sweep` keeps the list of domains handed over, the current slice of it
\* and, for every entry, the group of paths in flight and what was probed.

\* the endpoint patterns of __init__ and the two limits
WORKING_ENDPOINTS ==
    <<"/rss", "/rss.xml", "/feed", "/feed.xml", "/feeds/all.xml", "/news/rss", "/news/feed",
      "/news/rss.xml", "/api/rss", "/feeds/news.xml", "/atom.xml", "/feeds.xml">>
MAX_PARALLEL_DOMAINS == 10
MAX_PARALLEL_ENDPOINTS == 5

\* a domain of the list: the host it names, written bare ("h") or as a URL
\* ("https://h"); the list holds no string twice (_extract_domains_for_testing)
SweepHosts == 1..MaxDomains
Domain(host, spelled) == [host |-> host, spelled |-> spelled]

\* the lists swept: n hosts, and with `twice` the second entry names the
\* first host again, written as a URL
Domains(n, twice) ==
    [k \in 1..n |-> IF twice /\ k = 2 THEN Domain(1, "url") ELSE Domain(k, "bare")]

\* the web: the hosts in SlowHosts answer as chosen, every other host
\* serves a feed at "/rss"
SlowHosts == {1, 2, MaxDomains}
SlowUrls == {<<1, "/rss.xml">>, <<1, "/feed">>, <<1, "/news/feed">>, <<2, "/atom.xml">>}
AlwaysUp == {<<h, "/rss">> : h \in SweepHosts \ SlowHosts}

\* endpoint_batches[g]: WORKING_ENDPOINTS[i:i + MAX_PARALLEL_ENDPOINTS]
EndpointBatch(g) ==
    SubSeq(WORKING_ENDPOINTS, (g - 1) * MAX_PARALLEL_ENDPOINTS + 1,
           Min(g * MAX_PARALLEL_ENDPOINTS, Len(WORKING_ENDPOINTS)))
EndpointBatches == (Len(WORKING_ENDPOINTS) + MAX_PARALLEL_ENDPOINTS - 1) \div MAX_PARALLEL_ENDPOINTS

\* domain_batches: the entries of the slice that starts at entry i
DomainBatch(domains, i) == {k \in 1..Len(domains) : i <= k /\ k < i + MAX_PARALLEL_DOMAINS}

\* _test_single_endpoint: base_url and domain_name are the same for both
\* spellings of a host
ProbeEndpoint(domain, endpoint, web) ==
    [valid |-> <<domain.host, endpoint>> \in web, url |-> <<domain.host, endpoint>>,
     domain |-> domain.host, endpoint |-> endpoint]

\* the first valid result of a group, as the loop over batch_results finds it
\* the paths of a group
Paths(group) == {group[e] : e \in DOMAIN group}

RECURSIVE FirstValid(_)
FirstValid(results) ==
    IF results = <<>> THEN <<>>
    ELSE IF Head(results).valid THEN <<Head(results)>> ELSE FirstValid(Tail(results))

Waiting == [stage |-> "waiting", group |-> 0, in_flight |-> {}, probed |-> {}, feeds |-> <<>>]

InitSweep == EarlierIdle /\ LaterIdle

sweepIdle == <<publish, flight, subs, planVars, runVars, batch, moreVars, earlierVars>>

\* _fast_domain_endpoint_testing is called
FastDomainEndpointSweep(domains, web) ==
    /\ ~sweep.made
    /\ sweep' = [made |-> TRUE, domains |-> domains, web |-> web, i |-> 1, gathering |-> FALSE,
                 entries |-> [k \in 1..Len(domains) |-> Waiting],
                 validated_feeds |-> <<>>, returned |-> Len(domains) = 0]
    /\ UNCHANGED sweepIdle

\* the gather of one slice: every _test_domain_endpoints of it runs up to the
\* gather of its first group of paths
StartDomainBatch ==
    /\ sweep.made /\ ~sweep.returned /\ ~sweep.gathering
    /\ sweep' = [sweep EXCEPT
           !.gathering = TRUE,
           !.entries = [k \in DOMAIN @ |->
               IF k \in DomainBatch(sweep.domains, sweep.i)
               THEN [stage |-> "probing", group |-> 1, in_flight |-> Paths(EndpointBatch(1)),
                     probed |-> Paths(EndpointBatch(1)), feeds |-> <<>>]
               ELSE @[k]]]
    /\ UNCHANGED sweepIdle

\* the gather of one group of paths of entry k returns
CompleteEndpointBatch(k) ==
    /\ sweep.made /\ k \in DOMAIN sweep.entries
    /\ sweep.entries[k].stage = "probing"
    /\ LET entry == sweep.entries[k]
           group == EndpointBatch(entry.group)
           batch_results == [e \in 1..Len(group) |->
                                 ProbeEndpoint(sweep.domains[k], group[e], sweep.web)]
           found == FirstValid(batch_results)
       IN sweep' = [sweep EXCEPT !.entries[k] =
              IF found # <<>> \/ entry.group = EndpointBatches
              THEN [entry EXCEPT !.stage = "done", !.in_flight = {}, !.feeds = found]
              ELSE [entry EXCEPT !.group = @ + 1,
                                 !.in_flight = Paths(EndpointBatch(entry.group + 1)),
                                 !.probed = @ \cup Paths(EndpointBatch(entry.group + 1))]]
    /\ UNCHANGED sweepIdle

\* the feeds of the slice, in the order of the slice
RECURSIVE FeedsOf(_, _, _)
FeedsOf(entries, i, until) ==
    IF i > until THEN <<>> ELSE entries[i].feeds \o FeedsOf(entries, i + 1, until)

\* the gather of the slice returns: its results are added, the next slice is
\* taken or the list of feeds is returned
CompleteDomainBatch ==
    /\ sweep.made /\ sweep.gathering
    /\ \A k \in DomainBatch(sweep.domains, sweep.i) : sweep.entries[k].stage = "done"
    /\ LET until == Min(sweep.i + MAX_PARALLEL_DOMAINS - 1, Len(sweep.domains))
       IN sweep' = [sweep EXCEPT
              !.gathering = FALSE,
              !.validated_feeds = @ \o FeedsOf(sweep.entries, sweep.i, until),
              !.i = @ + MAX_PARALLEL_DOMAINS,
              !.returned = until = Len(sweep.domains)]
    /\ UNCHANGED sweepIdle

NextSweep ==
    \/ /\ ~sweep.made
       /\ \E n \in {0, 1, 2, MaxDomains}, twice \in BOOLEAN, answering \in SUBSET SlowUrls :
              FastDomainEndpointSweep(Domains(n, twice), AlwaysUp \cup answering)
    \/ StartDomainBatch
    \/ \E k \in 1..MaxDomains : CompleteEndpointBatch(k)
    \/ CompleteDomainBatch

SpecSweep == InitSweep /\ [][NextSweep]_vars

-----------------------------------------------------------------------------
\* The feeds of an RSSMonitor: subscribe_feed and unsubscribe_feed called one
\* after the other.  `subs` keeps the keys of active_feeds and
\* monitoring_stats['feeds_monitored'].

\* a URL as the caller writes it: the host, and whether it is written bare,
\* bare between blanks, or with one of the two schemes
Spellings == {"bare", "blanks", "https", "http"}
SubUrls == {<<spelled, host>> : spelled \in Spellings, host \in {"f1", "f2"}}

\* _normalize_url: blanks stripped, https:// put in front of a URL that has
\* no scheme
NormalizeUrl(url) == <<IF url[1] \in {"bare", "blanks"} THEN "https" ELSE url[1], url[2]>>

InitSubs == EarlierIdle /\ LaterIdle

subsIdle == <<publish, flight, sweep, planVars, runVars, batch, moreVars, earlierVars>>

\* subscribe_feed(feed_url); feed_info says whether _test_feed found a feed.
\* The first fetch catches its own exceptions.
SubscribeFeedUrl(feed_url, feed_info) ==
    /\ subs.calls < MaxSubCalls
    /\ LET normalized_url == NormalizeUrl(feed_url)
       IN subs' = IF ~feed_info
                  THEN [subs EXCEPT !.calls = @ + 1,
                                    !.last = [op |-> "subscribe", url |-> normalized_url,
                                              returned |-> FALSE]]
                  ELSE [subs EXCEPT !.calls = @ + 1,
                                    !.active_feeds = @ \cup {normalized_url},
                                    !.feeds_monitored = @ + 1,
                                    !.last = [op |-> "subscribe", url |-> normalized_url,
                                              returned |-> TRUE]]
    /\ UNCHANGED subsIdle

\* unsubscribe_feed(feed_url)
UnsubscribeFeedUrl(feed_url) ==
    /\ subs.calls < MaxSubCalls
    /\ LET normalized_url == NormalizeUrl(feed_url)
           present == normalized_url \in subs.active_feeds
       IN subs' = [subs EXCEPT !.calls = @ + 1,
                               !.active_feeds = @ \ {normalized_url},
                               !.feeds_monitored = IF present THEN @ - 1 ELSE @,
                               !.last = [op |-> "unsubscribe", url |-> normalized_url,
                                         returned |-> present]]
    /\ UNCHANGED subsIdle

NextSubs ==
    \/ \E feed_url \in SubUrls, feed_info \in BOOLEAN : SubscribeFeedUrl(feed_url, feed_info)
    \/ \E feed_url \in SubUrls : UnsubscribeFeedUrl(feed_url)

SpecSubs == InitSubs /\ [][NextSubs]_vars

(***************************************************************************)
(* Claims about the source table (checked under SpecSource).               *)
(***************************************************************************)
\* every call started so far is the client's create-or-get for (n, u), no
\* two calls ever overlapped, none is in flight and one has returned
SequentialClientCalls(n, u) ==
    /\ hist = {[kind |-> "client", name |-> n, url |-> u]}
    /\ ~overlapped
    /\ \A w \in Writers : wpc[w] = "idle"
    /\ last.kind = "client"

\* C4: starting from a table with no row for the source (n, u), after N >= 1
\* sequential create_or_get_signal_source(n, u) calls the table holds exactly
\* one row for (n, u) and the call that just returned gave that row's id.
C4_SequentialCallsLeaveOneRow ==
    \A n \in Names, u \in Urls :
        (RowsFor(startTbl, n, u) = {} /\ SequentialClientCalls(n, u))
            => /\ Cardinality(RowsFor(sources, n, u)) = 1
               /\ \E r \in RowsFor(sources, n, u) : last.ret = r.id

\* C5: when every call made is a create for the same (n, u), by writers
\* whose requests interleave in any order, the table never holds two rows
\* for (n, u).
C5_ConcurrentCreatesLeaveOneRow ==
    \A n \in Names, u \in Urls :
        (hist # {} /\ \A c \in hist : c.name = n /\ c.url = u)
            => Cardinality(RowsFor(sources, n, u)) <= 1

\* C6: create_or_get_signal_source(name, url) returns the id of a row whose
\* source_name and source_url both equal the arguments, and a call for a
\* pair that already has a row inserts nothing and changes last_checked only.
C6_SourceIdentityIsNameAndUrl ==
    (last.kind = "client" /\ last.ret # NoId /\ ~overlapped)
        => /\ \E r \in sources : /\ r.id = last.ret
                                 /\ r.source_name = last.name
                                 /\ r.source_url = last.url
           /\ last.existed => (~last.inserted /\ last.changed \subseteq {"last_checked"})

(***************************************************************************)
(* Claims about the evaluator (checked under SpecEval).                    *)
(***************************************************************************)
\* the inclusion rule as the specification words it: the decision is
\* 'include', or the answer carries a score above the threshold and the
\* decision is not 'exclude'
InclusionRule(resp, threshold) ==
    \/ resp.rec = "include"
    \/ (resp.score.t = "num" /\ resp.score.v > threshold /\ resp.rec # "exclude")

\* C1: for every evaluation whose LLM call returned a non-empty response,
\* _ai_evaluate_single_article marks the pair for signal creation if and
\* only if the inclusion rule holds of the response and the threshold.
C1_InclusionRuleDecides ==
    (lastEval.made /\ lastEval.resp.kind = "dict")
        => (lastEval.result.should_create_signal
                <=> InclusionRule(lastEval.resp, lastEval.threshold))

\* C8: every persisted signal has 0 <= match_score <= 1, whatever the LLM
\* answered.
C8_MatchScoreInUnitRange ==
    \A s \in signals : 0 <= s.match_score /\ s.match_score <= 100

\* C9: every persisted signal whose evaluation decision is not 'include'
\* has match_score >= the campaign's relevance threshold.
C9_ScoreReachesCampaignThreshold ==
    (lastSave.made /\ lastSave.wrote /\ lastSave.decision # "include")
        => lastSave.score >= lastSave.campaign_threshold

\* C10: for every signal the evaluator persisted, raw_signal_text as stored
\* parses as JSON and does not contain the reasoning text that the
\* ai_reasoning column holds.
C10_RawTextIsJsonWithoutReasoning ==
    \A s \in signals :
        s.status = "ai_evaluated"
            => /\ ParsesAsJson(s.raw_signal_text)
               /\ ~ContainsReasoning(s.raw_signal_text, s.ai_reasoning.len)

(***************************************************************************)
(* Claims about the campaign (checked under Spec).                         *)
(***************************************************************************)
\* the signal rows of PIR p
SignalsOf(p) == {s \in signals : s.indicator_id = p}

\* C2: within one campaign the number of signal rows written for any one
\* PIR never exceeds max_signals_per_pir (the larger of the two plans'
\* values, where they differ), news and filings counted together.
C2_SignalsPerPirWithinCap ==
    \A p \in PirIds :
        Cardinality(SignalsOf(p))
            <= Max(collectorPlan.max_signals_per_pir, mainPlan.max_signals_per_pir)

\* C3: within one campaign, for every PIR p and document URL u at most one
\* signal row has indicator_id = p and article_url = u.
C3_OneSignalPerPirAndUrl ==
    \A p \in PirIds, u \in Urls :
        Cardinality({s \in SignalsOf(p) : s.article_url = u}) <= 1

\* C11: every signal row, whichever writer wrote it, holds the title of its
\* document in article_title, the body of the document in article_content
\* and the reasoning of the evaluation in ai_reasoning, each in its own column
C11_DocumentFieldsKeptApart ==
    /\ \A r \in signals :
          /\ r.article_title = Field("title", r.article_url)
          /\ r.article_content \in {Field("description", r.article_url),
                                    Field("summary", r.article_url)}
          /\ ~r.ai_reasoning.null
    /\ (lastSave.made /\ lastSave.wrote) =>
          \E r \in signals : /\ r.indicator_id = lastSave.pir
                             /\ r.article_url = lastSave.url
                             /\ r.ai_reasoning = Text(lastSave.reasoning)

\* C7: every signal row references a row of the indicators table and a
\* row of signal_sources; the source id was a row of the table before the
\* signal insert and the PIR was among those loaded; and a save whose
\* source could not be resolved writes no signal row.
C7_SignalsReferenceExistingRows ==
    /\ \A s \in signals :
           /\ \E k \in 1..Len(PirRows) : PirRows[k].id = s.indicator_id
           /\ \E r \in sources : r.id = s.source_id
    /\ lastSave.made
           => /\ (lastSave.source_id = NoId => ~lastSave.wrote)
              /\ (lastSave.wrote => (lastSave.source_found /\ lastSave.pir \in PirIds))

\* a save failed to resolve its source, after signals had been written
C7_Witness ==
    /\ lastSave.made
    /\ lastSave.source_id = NoId
    /\ ~lastSave.wrote
    /\ signals # {}

(***************************************************************************)
(* Claims about the planner (checked under SpecPlanner).                   *)
(***************************************************************************)
\* the plan holds parameters derived from values the prompt names
PlannedFromNamedValues ==
    /\ planned.status = "ok"
    /\ planned.collection_params.urgency_level \in Urgencies
    /\ planned.collection_params.intensity_level \in Intensities
    /\ planned.strategy.relevance_threshold \in ThresholdTypes

\* base * max(0.5, 1 - 0.1 (n - 5)) in whole documents; the products are
\* whole numbers for every base and n
ScaledVolume(base, n) == IF n <= 5 THEN base ELSE (base * Max(5, 10 - (n - 5))) \div 10

\* C12: max_articles_per_pir is 200, 500, 1000, 2000 for light, standard,
\* intensive, comprehensive when there are at most 5 PIRs, and that base
\* times max(0.5, 1 - 0.1 (n - 5)) for n > 5 PIRs: 400 for standard with 7
\* PIRs, half the base from 10 PIRs on
C12_VolumeScalesWithPirCount ==
    PlannedFromNamedValues =>
        LET intensity == planned.collection_params.intensity_level
            base == CASE intensity = "light" -> 200
                      [] intensity = "standard" -> 500
                      [] intensity = "intensive" -> 1000
                      [] intensity = "comprehensive" -> 2000
            volume == planned.collection_params.max_articles_per_pir
        IN /\ volume = ScaledVolume(base, pirCount)
           /\ (intensity = "standard" /\ pirCount = 7) => volume = 400
           /\ pirCount >= 10 => 2 * volume = base

C12_Witness ==
    /\ PlannedFromNamedValues
    /\ planned.collection_params.intensity_level = "standard"
    /\ pirCount = 7
    /\ planned.collection_params.max_articles_per_pir = 400

\* |x - p/q| is at most two units in the last place of x: what is left of
\* the rounding of the two literals and of their product
NearDecimal(x, p, q) ==
    LET a == MulSmall(x.m, q)
        b == ShiftLeft(NatOf(p), 0 - x.e)
    IN /\ ~x.neg
       /\ ~NatLess(AddNat(b, NatOf(2 * q)), a)
       /\ ~NatLess(AddNat(a, NatOf(2 * q)), b)

\* base * factor in thousandths, clamped to [0.100, 0.800]
ClampedThousandths(threshold_type, urgency) ==
    LET base == CASE threshold_type = "very_selective" -> 70
                  [] threshold_type = "selective" -> 50
                  [] threshold_type = "balanced" -> 30
                  [] threshold_type = "inclusive" -> 15
        factor == CASE urgency = "crisis" -> 7
                    [] urgency = "long_term" -> 12
                    [] urgency = "strategic" -> 10
    IN Max(100, Min(800, base * factor))

\* C13: the relevance threshold is the base of the selectivity (0.70, 0.50,
\* 0.30, 0.15) times 0.7 for crisis and 1.2 for long_term, clamped to
\* [0.10, 0.80], for every selectivity and urgency: it is that decimal up to
\* the rounding of the floats, never below 0.10 or above 0.80; 0.21 for
\* balanced in a crisis and 0.80 for very_selective in the long term
C13_ThresholdClampedToRange ==
    PlannedFromNamedValues =>
        LET threshold_type == planned.strategy.relevance_threshold
            urgency == planned.collection_params.urgency_level
            threshold == planned.collection_params.relevance_threshold
        IN /\ ~FloatLess(threshold, Literal(1, 10))
           /\ ~FloatLess(Literal(8, 10), threshold)
           /\ NearDecimal(threshold, ClampedThousandths(threshold_type, urgency), 1000)
           /\ (threshold_type = "balanced" /\ urgency = "crisis")
                  => threshold = Literal(21, 100)
           /\ (threshold_type = "very_selective" /\ urgency = "long_term")
                  => threshold = Literal(8, 10)

C13_Witness ==
    /\ PlannedFromNamedValues
    /\ planned.strategy.relevance_threshold = "very_selective"
    /\ planned.collection_params.urgency_level = "long_term"
    /\ planned.collection_params.relevance_threshold = Literal(8, 10)

\* C14: collection_timeout is 180, 300, 450 for crisis, strategic,
\* long_term, times 1.5 for comprehensive and times 0.7 for light intensity,
\* for every urgency and intensity
C14_TimeoutIsBaseTimesFactor ==
    PlannedFromNamedValues =>
        LET urgency == planned.collection_params.urgency_level
            intensity == planned.collection_params.intensity_level
            base == CASE urgency = "crisis" -> 180
                      [] urgency = "strategic" -> 300
                      [] urgency = "long_term" -> 450
            factor == CASE intensity = "comprehensive" -> 15
                        [] intensity = "light" -> 7
                        [] OTHER -> 10
        IN 10 * planned.collection_params.collection_timeout = base * factor

C16_NoDefaultsForMissingFields ==
    planned.status = "ok" =>
        /\ plannerResponse.kind = "json"
        /\ PlannerFields \subseteq plannerResponse.keys
        /\ plannerResponse.urgency_level \in Urgencies
        /\ plannerResponse.collection_intensity \in Intensities
        /\ plannerResponse.relevance_threshold \in ThresholdTypes

(***************************************************************************)
(* Claims about one run of the collector (checked under SpecRun).          *)
(***************************************************************************)
\* C17: when the strategic context is missing, when no PIR is found or when
\* the planner fails, the run ends with a result that carries 'error', and
\* no source discovery, fetch, evaluation or signal write happens after the
\* step that failed
C17_HardErrorsStopTheRun ==
    /\ (run.context = "missing" \/ run.pirs = "none" \/ run.plan = "fails")
          => (run.stage = "failed" /\ run.error # None)
    /\ run.stage = "failed"
          => /\ run.discoveries = 0
             /\ run.fetches = 0
             /\ run.evaluations = 0
             /\ run.writes = 0
             /\ \A p \in PirIds : pirStep[p].pc = "idle"
             /\ ~ENABLED NextRun

C17_Witness ==
    /\ run.stage = "failed"
    /\ run.context = "ok"
    /\ run.pirs = "ok"
    /\ run.plan = "fails"
    /\ run.error = "ai_strategic_analysis"

\* C18: the run goes through context loaded, plan ready, sources ready,
\* collecting, evaluating, summarized in this order: no fetch before source
\* discovery has finished, no evaluation before the plan is ready, and no
\* evaluation for any PIR before collecting has ended for every PIR
C18_StagesInOrder ==
    /\ run.fetches > 0 => (run.discoveries > 0 /\ run.stage \in {"sources_ready", "summarized"})
    /\ run.evaluations > 0 => run.plan = "ok"
    /\ run.evaluations > 0 => \A p \in PirIds : pirStep[p].pc # "idle"
    /\ run.stage = "summarized" => \A p \in PirIds : pirStep[p].pc \in {"empty", "evaluated"}

BatchSignals(k) ==
    {r \in signals : r.indicator_id = EvalPir /\ r.article_url = BatchArticles[k].url}

\* C20: in one batch, the exception, HTTP error or timeout of one document's
\* evaluation never keeps the other documents from being evaluated and,
\* when they qualify, from producing signals; the failing document produces
\* no signal
C20_FailedEvaluationIsIsolated ==
    batch.made =>
        \A k \in 1..Len(BatchArticles) :
            /\ batch.cases[k].resp = ErrorResponse => BatchSignals(k) = {}
            /\ ( /\ AiEvaluateSingleArticle(batch.cases[k].resp, DefaultThreshold).should_create_signal
                 /\ batch.cases[k].out = "ok"
                 /\ Cardinality({i \in 1..(k - 1) : BatchSignals(i) # {}}) < batch.max_signals )
               => BatchSignals(k) # {}

C20_Witness ==
    /\ batch.made
    /\ batch.cases[1].resp = ErrorResponse
    /\ BatchSignals(1) = {}
    /\ BatchSignals(2) # {}
    /\ batch.signals_created = 1

\* the error kinds a summary is to count
ErrorKinds ==
    {"ConfigError", "PlanningError", "DiscoveryError", "FetchError", "EvaluationError",
     "PersistenceError", "DeadlineExceeded"}

\* C21: the summary returned at the end of a campaign holds a count for
\* each error kind, and its EvaluationError count is the number of
\* evaluations that failed during the campaign.
C21_SummaryCountsErrors ==
    run.stage = "summarized"
        => /\ ErrorKinds \subseteq DOMAIN run.summary
           /\ run.summary["EvaluationError"] = run.failed

\* C22: once collection_timeout seconds have passed since the campaign
\* began, no fetch and no evaluation starts or completes and no signal is
\* written, and the run does not go on to an ordinary summary.
C22_DeadlineEndsTheWork ==
    [][run.expired => /\ run'.fetches = run.fetches
                      /\ run'.evaluations = run.evaluations
                      /\ run'.writes = run.writes
                      /\ run'.stage # "summarized"]_vars

\* the PIRs of the indicators table whose text is shorter than the minimum
ShortPirs ==
    {PirRows[k].id : k \in {j \in 1..Len(PirRows) :
                                PirRows[j].indicator_text < MinIndicatorText}}

\* C23: a PIR whose text has fewer than 10 characters is dropped: no task
\* collects or evaluates for it and no signal is written for it.
C23_ShortPirIsDropped ==
    \A p \in ShortPirs :
        /\ p \in DOMAIN task => task[p].pc = "idle"
        /\ \A s \in signals : s.indicator_id # p

\* an HTML page: a body whose first piece is the html tag
HtmlPage == validation.body # <<>> /\ validation.body[1].lower = "<html>"

\* C24: every validator answers valid for a 200 response whose body starts
\* with '<rss', '<feed' or '<channel>' in any case, and answers not valid
\* for an empty body, for an HTML page and for every response that is not
\* a 200.
C24_ValidatorsJudgeByTheStartOfTheBody ==
    validation.made =>
        /\ ( /\ validation.kind = "response" /\ validation.status = 200
             /\ validation.body # <<>>
             /\ validation.body[1].lower \in {"<rss", "<feed", "<channel>"} )
           => validation.valid
        /\ (validation.kind # "response" \/ validation.status # 200) => ~validation.valid
        /\ validation.body = <<>> => ~validation.valid
        /\ HtmlPage => ~validation.valid

\* C25: in the feed monitor no entry is accepted twice: among the entries
\* taken as new so far, whatever fetches, subscriptions and evictions have
\* happened, no two have the same title and link.
C25_NoEntryAcceptedTwice ==
    \A i, j \in 1..Len(monitor.accepted) :
        ( /\ monitor.accepted[i].title = monitor.accepted[j].title
          /\ monitor.accepted[i].link = monitor.accepted[j].link ) => i = j

\* the backends' documents of the last collection, merged in order
Merged == Flatten(collection.results)

\* the places of a list that hold the first occurrence of their URL, and
\* those among them that hold a URL at all
FirstOfUrl(docs) ==
    {i \in 1..Len(docs) : \A j \in 1..(i - 1) : docs[j].url # docs[i].url}
FirstWithUrl(docs) == {i \in FirstOfUrl(docs) : docs[i].url # ""}

\* the documents of a list at the places S, in order
RECURSIVE PickFrom(_, _, _)
PickFrom(docs, S, k) ==
    IF k > Len(docs) THEN <<>>
    ELSE (IF k \in S THEN <<docs[k]>> ELSE <<>>) \o PickFrom(docs, S, k + 1)

QueryGenerationFailed ==
    \/ collection.answer.kind \in QueryFailures
    \/ collection.answer.kind = "queries" /\ collection.answer.n = 0

\* C27: whenever the query generation for a PIR fails (error, timeout,
\* answer that cannot be parsed or that holds no usable query), the
\* collector searches with exactly one query, the first 100 characters of
\* the PIR text, and the collection for the PIR is not given up.
C27_FallbackQueryOnFailure ==
    (collection.made /\ QueryGenerationFailed) =>
        /\ collection.queries = <<TextQuery(collection.text)>>
        /\ collection.searched = collection.queries
        /\ ~collection.abandoned

(***************************************************************************)
(* Claims about the feed discovery (checked under SpecDiscovery).          *)
(***************************************************************************)

\* C28: the list of validated sources returned by
\* discover_feeds_from_ai_recommendations holds no two entries with the
\* same URL.
C28_ValidatedUrlsAreDistinct ==
    feeds.made =>
        \A i, j \in 1..Len(feeds.validated_feeds) :
            feeds.validated_feeds[i].url = feeds.validated_feeds[j].url => i = j

\* the candidate gave a validated source: its URL answered the direct
\* test, or the sweep of its domain found a feed
CandidateValidated(source) ==
    \E k \in 1..Len(feeds.validated_feeds) :
        LET feed == feeds.validated_feeds[k]
        IN \/ feed.discovery_method = "ai_direct_url" /\ feed.url = source.rss_url
                                                       /\ feed.title = source.name
           \/ feed.discovery_method = "fast_endpoint_test" /\ feed.domain = DomainOf(source)

\* C29: a candidate's name is in the list of failed names exactly when
\* every validation attempt made for that candidate, in the direct test and
\* in the endpoint sweep, failed.
C29_FailedNamesAreTheFailedCandidates ==
    feeds.made =>
        \A i \in 1..Len(feeds.ai_sources) :
            (\E k \in 1..Len(feeds.failed_feed_names) :
                 feeds.failed_feed_names[k] = feeds.ai_sources[i].name)
            <=> \A j \in 1..Len(feeds.ai_sources) :
                    feeds.ai_sources[j].name = feeds.ai_sources[i].name
                        => ~CandidateValidated(feeds.ai_sources[j])

(***************************************************************************)
(* Claims about the filing feed parser (checked under SpecSecFeed).        *)
(***************************************************************************)

\* the entry has a title, a link and an update time inside the window
InWindow(entry) ==
    /\ entry.title # "absent" /\ entry.link # "absent" /\ entry.updated # "absent"
    /\ entry.stamp.kind \in {"aware", "naive"}
    /\ entry.stamp.day >= CutoffDate

Filing(entry) ==
    [title |-> entry.title, document_url |-> entry.link, filing_date |-> entry.stamp.day]

RECURSIVE EntriesInWindow(_)
EntriesInWindow(entries) ==
    IF entries = <<>> THEN <<>>
    ELSE (IF InWindow(Head(entries)) THEN <<Filing(Head(entries))>> ELSE <<>>)
             \o EntriesInWindow(Tail(entries))

\* C30: the filing backend returns exactly the entries of the feed that have
\* a title, a link and an update time, and whose update time is not older
\* than now minus the requested window.
C30_ReturnsTheEntriesInTheWindow ==
    parsed.made => parsed.filings = EntriesInWindow(parsed.entries)

(***************************************************************************)
(* Claims about the publish time of a signal (checked under SpecPublish).  *)
(***************************************************************************)

\* the year, month and day of the stored timestamp are the document's
DateFromDocument(stamp) ==
    stamp.year # FromDefault /\ stamp.month # FromDefault /\ stamp.day # FromDefault

\* C31: when the publish time of a document cannot be parsed the signal is
\* still written with published_date null, and the published_date of a
\* signal is never a timestamp that did not come from the document.
C31_PublishedDateIsTheDocuments ==
    publish.made =>
        /\ (publish.published.kind \in {"text", "overflow"} /\ ParserRaises(publish.published))
               => /\ publish.published_date = NullDate
                  /\ publish.out = "ok" => publish.wrote
        /\ (publish.wrote /\ publish.published_date.kind = "timestamp")
               => DateFromDocument(publish.published_date)

(***************************************************************************)
(* Claims about the evaluations of one PIR (checked under SpecFlight).     *)
(***************************************************************************)

InFlight == {a \in FlightIds : flight.status[a] = "running"}

\* C32: the evaluations of one PIR run in batches of at most
\* ai_evaluation_batch_size documents: never more than that many calls are
\* in flight, and no call of a later batch starts before every call of the
\* batch before it has returned and its result loop, with its writes, has
\* finished.
C32_BatchesRunOneAfterAnother ==
    /\ Cardinality(InFlight) <= flight.params.ai_evaluation_batch_size
    /\ \A a \in InFlight :
           /\ flight.finished = flight.started_in[a] - 1
           /\ \A b \in FlightIds :
                  (flight.started_in[b] # 0 /\ flight.started_in[b] < flight.started_in[a])
                      => flight.status[b] \in FlightResults

\* calls of a second batch are in flight, filling the batch, after the first
\* batch wrote a signal
C32_Witness ==
    /\ flight.begun = 2
    /\ flight.params.ai_evaluation_batch_size = 2
    /\ Cardinality(InFlight) = 2
    /\ flight.written # {}

(***************************************************************************)
(* A further claim about the search backend (checked under SpecCollect).   *)
(***************************************************************************)

\* max_results of every search of the collection made
SearchBudget == MaxResults(collection.text, collection.answer, collection.max_articles \div 2)

\* C33: for a PIR with q generated queries the collector makes exactly one
\* search call per generated query, each with a budget of half of
\* max_articles_per_pir divided by q, and the budgets of the calls made add
\* up to that half.
C33_OneSearchPerQueryWithinTheHalf ==
    (collection.made /\ collection.queries # <<>>) =>
        /\ Len(collection.searched) = Len(collection.queries)
        /\ \A k \in 1..Len(collection.searched) : collection.searched[k] = collection.queries[k]
        /\ Len(collection.searched) * SearchBudget = collection.max_articles \div 2

\* the feeds validated by the direct test
DirectlyValidated ==
    {k \in 1..Len(feeds.validated_feeds) :
        feeds.validated_feeds[k].discovery_method = "ai_direct_url"}

\* C34: the endpoint sweep of the discovery runs exactly when the number of
\* sources validated in the direct-URL phase is less than half of the number
\* of candidates, candidates being counted after a once-nested list is
\* flattened.
C34_SweepBelowHalfOfTheCandidates ==
    feeds.made =>
        (feeds.sweeps <=> 2 * Cardinality(DirectlyValidated) < Len(feeds.ai_sources))

\* the entries of the list of domains that name a host
EntriesOf(host) ==
    {k \in DOMAIN sweep.entries : sweep.domains[k].host = host}

\* the paths of a host with a probe in flight, counted per entry
RECURSIVE InFlightOf(_)
InFlightOf(entries) ==
    IF entries = {} THEN 0
    ELSE LET k == CHOOSE e \in entries : TRUE
         IN Cardinality(sweep.entries[k].in_flight) + InFlightOf(entries \ {k})

\* the feeds a host contributed
HostFeeds(host) ==
    {k \in 1..Len(sweep.validated_feeds) : sweep.validated_feeds[k].domain = host}

\* the entries being probed
Probing == {k \in DOMAIN sweep.entries : sweep.entries[k].stage = "probing"}

\* the groups before the last group probed for entry k found nothing
EarlierGroupsSilent(k) ==
    \A e \in 1..Len(WORKING_ENDPOINTS) :
        (/\ WORKING_ENDPOINTS[e] \in sweep.entries[k].probed
         /\ e > MAX_PARALLEL_ENDPOINTS
         /\ sweep.entries[k].stage # "waiting")
        => \A f \in 1..(((e - 1) \div MAX_PARALLEL_ENDPOINTS) * MAX_PARALLEL_ENDPOINTS) :
               <<sweep.domains[k].host, WORKING_ENDPOINTS[f]>> \notin sweep.web

\* C35: during the endpoint sweep at most 5 paths of one host are probed at
\* the same time, a host contributes at most one validated feed, no path of a
\* later group is probed once a group has produced a valid feed, and at most
\* 10 hosts are probed at the same time.
C35_SweepLimits ==
    sweep.made =>
        /\ \A host \in SweepHosts :
               /\ InFlightOf(EntriesOf(host)) <= 5
               /\ Cardinality(HostFeeds(host)) <= 1
        /\ \A k \in DOMAIN sweep.entries : EarlierGroupsSilent(k)
        /\ Cardinality(Probing) <= 10

\* C36: with the PIRs collected in parallel, the counter of evaluations in
\* the summary of a run equals the number of evaluation calls the run issued,
\* and the counter of signals created equals the number of rows written.
C36_CountersMatchTheWork ==
    run.stage = "summarized" =>
        /\ run.summary.ai_evaluation_calls = run.issued
        /\ run.summary.total_signals_created = run.writes

\* C40: the sources the run hands to the collection of the PIRs are exactly
\* the feeds the validation found, and sources_discovered is their number.
C40_SourcesHandedOnAreTheValidated ==
    run.stage \in {"sources_ready", "summarized"} =>
        /\ run.rss_sources = FeedList(run.validated)
        /\ run.sources = run.validated
        /\ run.stage = "summarized" => run.summary.sources_discovered = run.validated

\* what the evaluation of the k-th article of the batch gave
BatchResult(k) == AiEvaluateSingleArticle(batch.cases[k].resp, DefaultThreshold)

\* C37: in _evaluate_article_batch the i-th result is saved with the i-th
\* article of the batch: every signal row written carries the URL, title and
\* content of an article of the batch together with the score and the
\* reasoning of that article's own evaluation, whatever the cap and the mix
\* of failed evaluations and failed saves.
C37_ResultSavedWithItsArticle ==
    batch.made =>
        /\ \A r \in signals : \E k \in 1..Len(BatchArticles) : r \in BatchSignals(k)
        /\ \A k \in 1..Len(BatchArticles) : \A r \in BatchSignals(k) :
               /\ BatchResult(k).should_create_signal
               /\ r.match_score = BatchResult(k).relevance_score.v
               /\ r.ai_reasoning = Text(BatchResult(k).reasoning)
               /\ r.article_title = BatchArticles[k].title
               /\ r.article_content = BatchArticles[k].description

C37_Witness ==
    /\ batch.made
    /\ batch.signals_created = 2
    /\ \E r1 \in BatchSignals(1), r2 \in BatchSignals(2) : r1.match_score # r2.match_score

\* collect_strategic_intelligence has returned: the final results, or the
\* result of the except branch with its 'error'
Returned ==
    \/ run.stage = "summarized" /\ run.error = None
    \/ run.stage = "failed" /\ run.error # None

\* C38: provided every external call eventually returns, fails or times out,
\* collect_strategic_intelligence eventually returns the final summary or a
\* result that carries 'error'; no exception leaves it.
C38_RunEventuallyReturns == <>Returned

C38_Witness ==
    /\ run.stage = "failed"
    /\ run.error = "ai_strategic_analysis"
    /\ run.context = "ok"
    /\ run.pirs = "ok"

\* C39: after any sequence of subscribe_feed and unsubscribe_feed calls,
\* the same URL subscribed twice and a URL unsubscribed that is not
\* subscribed included, feeds_monitored is the number of feeds in
\* active_feeds.
C39_FeedsMonitoredCountsActiveFeeds ==
    subs.feeds_monitored = Cardinality(subs.active_feeds)


=============================================================================
